---- MODULE Spec2Model ----
(***************************************************************************)
(* The Migration Persistor of overleaf/object-persistor                    *)
(* (src/src/MigrationPersistor.js) over two abstract backend persistors,   *)
(* `primary` and `fallback`, that follow the persistor contract of the     *)
(* S3 and GCS adapters.  Every `await` of the source is one step: the      *)
(* backend call, its effect on the backend and the continuation up to the  *)
(* next await.  Streams are sequences of chunks; a tee is the pair of      *)
(* Stream.pipeline calls that attach PassThrough branches to one source.   *)
(***************************************************************************)
EXTENDS Integers, Sequences, FiniteSets, TLC

VARIABLES Settings, primaryStore, fallbackStore, call, sessions, finished, nOps, issued,
          adapter, factory

vars == <<Settings, primaryStore, fallbackStore, call, sessions, finished, nOps, issued,
          adapter, factory>>

----------------------------------------------------------------------------
(* Bounds *)

\* caller operations in one behaviour
MaxOps == 2

\* chunks a PassThrough branch buffers before it pushes back on the source
HighWaterMark == 1

----------------------------------------------------------------------------
(* Values *)

Undefined == "undefined"

\* an absent object; objects are non-empty sequences of chunks
Absent == <<>>

\* `let sourceMd5` left unassigned
NoMd5 == <<>>

\* the value of ({})['constructor']: a member inherited from Object.prototype
InheritedMember == "[Function: Object]"

\* bucket names a caller passes; "constructor" is a valid bucket name that is
\* also the name of a member of Object.prototype
Buckets == {"a", "constructor"}

\* buckets of the fallback backend
FallbackBuckets == {"a", "legacy", "constructor"}

\* keys are paths; a directory key is a prefix of the keys under it
Keys == {<<"d", "s">>, <<"d", "t">>}

Prefixes == {<<"d">>}

\* the object the fallback backend holds before the migration
OldObject == <<1, 2>>

\* the object a caller uploads through sendStream
NewObject == <<3, 4>>

\* Settings.fallback.buckets: object literals, as in the comment of lines 14-19
MappingTables == {[b \in {} |-> "legacy"], [b \in {"a"} |-> "legacy"]}

\* names of members every object literal inherits from Object.prototype
ObjectPrototypeMembers == {"constructor"}

\* opts of getObjectStream: start and end are <<>> (undefined) or <<n>>
NoRange == [start |-> <<>>, end |-> <<>>]

Range(s, e) == [start |-> <<s>>, end |-> <<e>>]

OptsSet == {NoRange, Range(0, 0), Range(1, 1)}

----------------------------------------------------------------------------
(* Errors (src/src/Errors.js) and results of async functions *)

NoError == [kind |-> "none"]

\* an error a backend persistor throws
BackendError(kind, origin, method) ==
  [kind |-> kind, origin |-> origin, method |-> method]

\* seeded fault: no error is taken for a miss (C2)
IsNotFoundError_Never(err) == FALSE

\* seeded fault: every error is taken for a miss (C3)
IsNotFoundError_Always(err) == TRUE

\* err instanceof NotFoundError
IsNotFoundError(err) == err.kind = "NotFoundError"

Ok(v) == [status |-> "ok", value |-> v]

Fail(e) == [status |-> "error", error |-> e]

Pending == [status |-> "pending"]

----------------------------------------------------------------------------
(* Pure helpers *)

\* JavaScript truthiness of an optional number: !undefined and !0 are true
Falsy(x) == x = <<>> \/ x = <<0>>

\* the MD5 digest of an object, injective on the objects of the model
Md5(bytes) == <<"md5", bytes>>

Min(x, y) == IF x < y THEN x ELSE y

IsPrefix(p, k) == Len(p) <= Len(k) /\ SubSeq(k, 1, Len(p)) = p

RECURSIVE SumSizes(_, _)
SumSizes(dir, ks) ==
  IF ks = {} THEN 0
  ELSE LET k == CHOOSE x \in ks : TRUE
       IN Len(dir[k]) + SumSizes(dir, ks \ {k})

Has(store, b, k) == b \in DOMAIN store /\ k \in DOMAIN store[b] /\ store[b][k] # Absent

\* the bytes a backend streams for opts: a Range header only when both ends are set
Slice(bytes, opts) ==
  IF opts.start # <<>> /\ opts.end # <<>>
  THEN SubSeq(bytes, opts.start[1] + 1, Min(opts.end[1] + 1, Len(bytes)))
  ELSE bytes

\* obj[name] on an object literal: own property, else inherited member, else undefined
PropertyOf(obj, name) ==
  IF name \in DOMAIN obj THEN obj[name]
  ELSE IF name \in ObjectPrototypeMembers THEN InheritedMember
  ELSE Undefined

Truthy(v) == v # Undefined /\ v # ""

\* Settings.fallback.buckets[bucket] || bucket
_getFallbackBucket(bucket) ==
  LET v == PropertyOf(Settings.buckets, bucket)
  IN IF Truthy(v) THEN v ELSE bucket

\* Settings.fallback.copyOnMiss && !opts.start && !opts.end
shouldCopy(opts) == Settings.copyOnMiss /\ Falsy(opts.start) /\ Falsy(opts.end)

----------------------------------------------------------------------------
(* The backend persistors behind `primary` and `fallback` *)

\* kind an adapter gives a backend failure that is not a 404
RequestedKind(method) ==
  IF method \in {"sendStream", "copyObject", "deleteObject", "deleteDirectory"}
  THEN "WriteError" ELSE "ReadError"

\* result of a read-only method on a backend holding `store`
BackendRead(store, origin, method, b, k, fault) ==
  IF fault THEN Fail(BackendError(RequestedKind(method), origin, method))
  ELSE IF method = "checkIfObjectExists" THEN Ok(Has(store, b, k))
  ELSE IF b \notin DOMAIN store THEN Fail(BackendError("NotFoundError", origin, method))
  ELSE IF method = "directorySize"
       THEN Ok(SumSizes(store[b], {x \in DOMAIN store[b] : IsPrefix(k, x) /\ store[b][x] # Absent}))
  ELSE IF ~Has(store, b, k) THEN Fail(BackendError("NotFoundError", origin, method))
  ELSE IF method = "getObjectMd5Hash" THEN Ok(Md5(store[b][k]))
  ELSE IF method = "getObjectSize" THEN Ok(Len(store[b][k]))
  ELSE Ok(store[b][k])

\* the store after deleteObject / deleteDirectory
BackendDelete(store, method, b, k) ==
  IF b \notin DOMAIN store THEN store
  ELSE [store EXCEPT ![b] = [x \in DOMAIN store[b] |->
          IF (method = "deleteObject" /\ x = k) \/ (method = "deleteDirectory" /\ IsPrefix(k, x))
          THEN Absent ELSE store[b][x]]]

\* result of deleteObject / deleteDirectory
BackendDeleteResult(store, origin, method, b, fault) ==
  IF fault THEN Fail(BackendError("WriteError", origin, method))
  ELSE IF b \notin DOMAIN store THEN Fail(BackendError("NotFoundError", origin, method))
  ELSE Ok(Undefined)

\* a record of one call made to a backend
BackendCall(backend, method, b, k, caller) ==
  [backend |-> backend, method |-> method, bucket |-> b, key |-> k, caller |-> caller]

----------------------------------------------------------------------------
(* Streams, tees and the repair primitive *)

\* a PassThrough attached to the source by Stream.pipeline
NewBranch == [buf |-> <<>>, st |-> "open"]

\* the state of one run of _copyStreamFromFallbackAndVerify; `handler` is what
\* the launch site attaches to the returned promise: "catch", "then" or "await"
NewRepair(sourceBucket, destBucket, sourceKey, destKey, handler) ==
  [pc |-> "hash", sourceMd5 |-> NoMd5, written |-> <<>>,
   sourceBucket |-> sourceBucket, destBucket |-> destBucket,
   sourceKey |-> sourceKey, destKey |-> destKey,
   handler |-> handler, error |-> NoError, cleanups |-> 0, escaped |-> FALSE]

\* what a session keeps of a run that has returned
Returned(R) ==
  [R EXCEPT !.pc = "done", !.sourceMd5 = NoMd5, !.written = <<>>, !.error = NoError,
            !.cleanups = 0, !.escaped = FALSE]

\* a stream opened on fallback, the branches piped from it and their consumers
NewSession(caller, bytes, full, branches, repairs) ==
  [caller |-> caller, src |-> bytes, full |-> full, pos |-> 0, srcState |-> "flowing",
   br |-> [n \in branches |-> NewBranch],
   delivered |-> <<>>,
   outcome |-> IF "return" \in branches THEN "pending" ELSE "none",
   rep |-> repairs]

\* nothing of the session is left to run: its record is dropped
Finished(S) ==
  /\ \A n \in DOMAIN S.rep : S.rep[n].pc = "done"
  /\ S.outcome \in {"none", "end", "error"}

\* Stream.pipeline(source, branch) when the branch is destroyed: the source is
\* destroyed unless it has ended, and then every other pipeline from the same
\* source sees a premature close and destroys its own branch
DestroyBranch(S, n) ==
  IF S.srcState = "flowing"
  THEN [S EXCEPT !.srcState = "destroyed",
                 !.br = [m \in DOMAIN S.br |-> [buf |-> <<>>, st |-> "destroyed"]],
                 !.outcome = IF @ = "pending" THEN "error" ELSE @]
  ELSE [S EXCEPT !.br[n] = [buf |-> <<>>, st |-> "destroyed"]]

\* what a failing primary.sendStream does to the stream it was reading:
\* destroys it (a pipeline that contains it fails), or just stops reading it
AfterWriteFailure(S, n, effect) ==
  IF S.br[n].st # "open" THEN S
  ELSE IF effect = "destroy" \/ S.srcState = "ended" THEN DestroyBranch(S, n)
  ELSE [S EXCEPT !.br[n].st = "abandoned"]

\* seeded fault: the destination key reported is the source key (C9)
CopyWriteError_SourceAsDest(R, cause) ==
  [kind |-> "WriteError", origin |-> "repair",
   message |-> "unable to copy file to destination persistor",
   info |-> [sourceBucket |-> R.sourceBucket, destBucket |-> R.destBucket,
             sourceKey |-> R.sourceKey, destKey |-> R.sourceKey],
   cause |-> cause]

\* the WriteError of lines 170-178
CopyWriteError(R, cause) ==
  [kind |-> "WriteError", origin |-> "repair",
   message |-> "unable to copy file to destination persistor",
   info |-> [sourceBucket |-> R.sourceBucket, destBucket |-> R.destBucket,
             sourceKey |-> R.sourceKey, destKey |-> R.destKey],
   cause |-> cause]

\* the WriteError of lines 186-192, stored as error.info.cleanupError
CleanupError(R, cause) ==
  [kind |-> "WriteError", origin |-> "repair",
   message |-> "unable to clean up destination copy artifact",
   info |-> [destBucket |-> R.destBucket, destKey |-> R.destKey],
   cause |-> cause]

\* the foreground call once the promise it awaits settles
Settle(c, result) == [c EXCEPT !.pc = "done", !.result = result]

\* the session after a step: kept while something of it is left to run
Keep(S) == sessions' = IF Finished(S) THEN <<>> ELSE <<S>>

\* the stream or the run of the repair primitive that ended in this step
NoEvent == [stream |-> <<>>, repair |-> <<>>]

StreamEnded(S) == [stream |-> <<S>>, repair |-> <<>>]

RepairReturned(S, R, deleteFailed) ==
  [stream |-> <<>>,
   repair |-> <<[R EXCEPT !.pc = "done"] @@
                [full |-> S.full, src |-> S.src, deleteFailed |-> deleteFailed]>>]

\* seeded fault: the second branch of a tee is attached after the first chunk (C23)
TeeEmit_LateBranch(s) ==
  LET S == sessions[s]
      late(n) == S.pos = 0 /\ (n = "miss" \/ (n = "copy" /\ "return" \in DOMAIN S.br))
  IN
  /\ S.srcState = "flowing"
  /\ S.pos < Len(S.src)
  /\ \A n \in DOMAIN S.br : Len(S.br[n].buf) < HighWaterMark
  /\ Keep([S EXCEPT !.pos = @ + 1,
                    !.srcState = IF S.pos + 1 = Len(S.src) THEN "ended" ELSE "flowing",
                    !.br = [n \in DOMAIN S.br |->
                              IF late(n) THEN S.br[n]
                              ELSE [S.br[n] EXCEPT !.buf = Append(@, S.src[S.pos + 1])]]])
  /\ finished' = NoEvent
  /\ issued' = {}
  /\ UNCHANGED <<adapter, factory, Settings, primaryStore, fallbackStore, call, nOps>>

\* seeded fault: only the stream returned to the caller is piped from the source (C7)
TeeEmit_ReturnOnly(s) ==
  LET S == sessions[s] IN
  /\ S.srcState = "flowing"
  /\ S.pos < Len(S.src)
  /\ \A n \in DOMAIN S.br : Len(S.br[n].buf) < HighWaterMark
  /\ Keep([S EXCEPT !.pos = @ + 1,
                    !.srcState = IF S.pos + 1 = Len(S.src) THEN "ended" ELSE "flowing",
                    !.br = [n \in DOMAIN S.br |->
                              IF n = "return"
                              THEN [S.br[n] EXCEPT !.buf = Append(@, S.src[S.pos + 1])]
                              ELSE S.br[n]]])
  /\ finished' = NoEvent
  /\ issued' = {}
  /\ UNCHANGED <<adapter, factory, Settings, primaryStore, fallbackStore, call, nOps>>

\* the source emits its next chunk into every attached branch; with the last
\* chunk it ends.  It waits while any branch is at its high-water mark.
TeeEmit(s) ==
  LET S == sessions[s] IN
  /\ S.srcState = "flowing"
  /\ S.pos < Len(S.src)
  /\ \A n \in DOMAIN S.br : Len(S.br[n].buf) < HighWaterMark
  /\ Keep([S EXCEPT !.pos = @ + 1,
                    !.srcState = IF S.pos + 1 = Len(S.src) THEN "ended" ELSE "flowing",
                    !.br = [n \in DOMAIN S.br |->
                              [S.br[n] EXCEPT !.buf = Append(@, S.src[S.pos + 1])]]])
  /\ finished' = NoEvent
  /\ issued' = {}
  /\ UNCHANGED <<adapter, factory, Settings, primaryStore, fallbackStore, call, nOps>>

\* the caller reads one chunk of the stream getObjectStream returned
CallerRead(s) ==
  LET S == sessions[s] IN
  /\ "return" \in DOMAIN S.br
  /\ S.br["return"].st = "open"
  /\ S.br["return"].buf # <<>>
  /\ LET T == [S EXCEPT !.br["return"].buf = Tail(@),
                         !.delivered = Append(@, Head(S.br["return"].buf)),
                         !.outcome = IF Len(S.br["return"].buf) = 1 /\ S.srcState = "ended"
                                     THEN "end" ELSE @]
     IN /\ Keep(T)
        /\ finished' = IF T.outcome = "end" THEN StreamEnded(T) ELSE NoEvent
  /\ issued' = {}
  /\ UNCHANGED <<adapter, factory, Settings, primaryStore, fallbackStore, call, nOps>>

\* seeded fault: a failed fetch of the source hash fails the repair (C27)
RepairHash_FailsRepair(s, n, fault) ==
  LET S == sessions[s]
      R == S.rep[n]
      r == BackendRead(fallbackStore, "fallback", "getObjectMd5Hash",
                       R.sourceBucket, R.sourceKey, fault)
  IN
  /\ R.pc = "hash"
  /\ Keep(IF r.status = "ok"
          THEN [S EXCEPT !.rep[n].pc = "write", !.rep[n].sourceMd5 = r.value]
          ELSE [S EXCEPT !.rep[n].pc = "cleanup",
                         !.rep[n].error = CopyWriteError(R, r.error)])
  /\ finished' = NoEvent
  /\ issued' = {BackendCall("fallback", "getObjectMd5Hash", R.sourceBucket, R.sourceKey, S.caller)}
  /\ UNCHANGED <<adapter, factory, Settings, primaryStore, fallbackStore, call, nOps>>

\* lines 158-166: the best-effort hash fetch; then sendStream is called
RepairHash(s, n, fault) ==
  LET S == sessions[s]
      R == S.rep[n]
      r == BackendRead(fallbackStore, "fallback", "getObjectMd5Hash",
                       R.sourceBucket, R.sourceKey, fault)
  IN
  /\ R.pc = "hash"
  /\ Keep([S EXCEPT !.rep[n].pc = "write",
                    !.rep[n].sourceMd5 = IF r.status = "ok" THEN r.value ELSE NoMd5])
  /\ finished' = NoEvent
  /\ issued' = {BackendCall("fallback", "getObjectMd5Hash", R.sourceBucket, R.sourceKey, S.caller),
                BackendCall("primary", "sendStream", R.destBucket, R.destKey, S.caller)}
  /\ UNCHANGED <<adapter, factory, Settings, primaryStore, fallbackStore, call, nOps>>

\* primary.sendStream reads one chunk from its branch
RepairConsume(s, n) ==
  LET S == sessions[s]
      R == S.rep[n]
  IN
  /\ R.pc = "write"
  /\ S.br[n].st = "open"
  /\ S.br[n].buf # <<>>
  /\ Keep([S EXCEPT !.br[n].buf = Tail(@),
                    !.rep[n].written = Append(@, Head(S.br[n].buf))])
  /\ finished' = NoEvent
  /\ issued' = {}
  /\ UNCHANGED <<adapter, factory, Settings, primaryStore, fallbackStore, call, nOps>>

\* the backend accepts the upload: with a sourceMd5 the backend validates it,
\* without one sendStream verifies what it stored against what it sent
HashAccepted(R) == R.sourceMd5 = NoMd5 \/ R.sourceMd5 = Md5(R.written)

\* seeded fault: sendStream resolves without waiting for the end of its input (C6)
InputComplete_Early(S, n) == S.br[n].st = "open"

\* the stream primary.sendStream reads has ended and is read to its end
InputComplete(S, n) == S.br[n].st = "open" /\ S.br[n].buf = <<>> /\ S.srcState = "ended"

\* line 168 resolves: the repair succeeds
RepairWriteOk(s, n) ==
  LET S == sessions[s]
      R == S.rep[n]
  IN
  /\ R.pc = "write"
  /\ InputComplete(S, n)
  /\ HashAccepted(R)
  /\ primaryStore' = [primaryStore EXCEPT ![R.destBucket][R.destKey] = R.written]
  /\ Keep([S EXCEPT !.rep[n] = Returned(R)])
  /\ finished' = RepairReturned(S, R, FALSE)
  /\ call' = IF R.handler = "await" THEN Settle(call, Ok(Undefined)) ELSE call
  /\ issued' = {}
  /\ UNCHANGED <<adapter, factory, Settings, fallbackStore, nOps>>

\* line 168 rejects: a backend fault at any point, a stream that was destroyed,
\* or a digest the backend refuses.  The backend may keep what it had written.
RepairWriteFail(s, n, effect, artifact) ==
  LET S == sessions[s]
      R == S.rep[n]
      cause == BackendError("WriteError", "primary", "sendStream")
  IN
  /\ R.pc = "write"
  /\ primaryStore' = IF artifact /\ R.written # <<>>
                     THEN [primaryStore EXCEPT ![R.destBucket][R.destKey] = R.written]
                     ELSE primaryStore
  /\ LET T == AfterWriteFailure(S, n, effect)
     IN /\ Keep([T EXCEPT !.rep[n] = [R EXCEPT !.pc = "cleanup", !.sourceMd5 = NoMd5,
                                                !.written = <<>>,
                                                !.error = CopyWriteError(R, cause)]])
        /\ finished' = IF S.outcome = "pending" /\ T.outcome = "error"
                       THEN StreamEnded(T) ELSE NoEvent
  /\ issued' = {}
  /\ UNCHANGED <<adapter, factory, Settings, fallbackStore, call, nOps>>

\* lines 183-196: delete the destination, record a failed delete, throw
RepairCleanup(s, n, fault) ==
  LET S == sessions[s]
      R == S.rep[n]
      err == IF fault
             THEN [R.error EXCEPT !.info = @ @@
                    [cleanupError |-> CleanupError(R, BackendError("WriteError", "primary", "deleteObject"))]]
             ELSE R.error
      last == [R EXCEPT !.error = err, !.cleanups = @ + 1, !.escaped = (R.handler = "then")]
  IN
  /\ R.pc = "cleanup"
  /\ primaryStore' = IF fault THEN primaryStore
                     ELSE BackendDelete(primaryStore, "deleteObject", R.destBucket, R.destKey)
  /\ Keep([S EXCEPT !.rep[n] = Returned(R)])
  /\ finished' = RepairReturned(S, last, fault)
  /\ call' = IF R.handler = "await" THEN Settle(call, Fail(err)) ELSE call
  /\ issued' = {BackendCall("primary", "deleteObject", R.destBucket, R.destKey, S.caller)}
  /\ UNCHANGED <<adapter, factory, Settings, fallbackStore, nOps>>

----------------------------------------------------------------------------
(* The operations of the Migration Persistor *)

NoCall ==
  [op |-> "none", bucket |-> Undefined, key |-> <<>>, arg |-> Undefined,
   pc |-> "idle", result |-> Pending, shouldCopy |-> FALSE, primaryHad |-> FALSE,
   primaryError |-> NoError,
   fallbackBucket |-> Undefined, fbCalls |-> 0, launched |-> 0,
   p |-> "none", f |-> "none"]

NewCall(op, bucket, key, arg) ==
  [NoCall EXCEPT !.op = op, !.bucket = bucket, !.key = key, !.arg = arg, !.pc = "primary"]

\* the caller may start an operation: the previous one has returned
CanStart ==
  /\ call.pc \in {"idle", "done"}
  /\ call.p # "pending"
  /\ call.f # "pending"
  /\ nOps < MaxOps

\* the caller starts a read, a copy, a sendFile or a getRedirectUrl when no
\* stream of an earlier operation is open; uploads and deletes start at any time
CanStartRead == CanStart /\ sessions = <<>>

\* lines 33-38 and 68: getObjectStream on primary
GetObjectStreamPrimary(bucket, key, opts, fault) ==
  LET r == BackendRead(primaryStore, "primary", "getObjectStream", bucket, key, fault)
      c == [NewCall("getObjectStream", bucket, key, opts) EXCEPT
              !.shouldCopy = shouldCopy(opts),
              !.primaryHad = Has(primaryStore, bucket, key),
              !.primaryError = IF r.status = "error" THEN r.error ELSE NoError]
  IN
  /\ CanStartRead
  /\ call' = IF r.status = "ok"
             THEN Settle(c, Ok([from |-> "primary", bytes |-> Slice(r.value, opts)]))
             ELSE IF IsNotFoundError(r.error)
             THEN [c EXCEPT !.pc = "fallback", !.fallbackBucket = _getFallbackBucket(bucket)]
             ELSE Settle(c, r)
  /\ nOps' = nOps + 1
  /\ issued' = {BackendCall("primary", "getObjectStream", bucket, key, bucket)}
  /\ finished' = NoEvent
  /\ UNCHANGED <<adapter, factory, Settings, primaryStore, fallbackStore, sessions>>

\* lines 39-66: the stream of fallback, teed to the caller and to the repair
GetObjectStreamFallback(fault) ==
  LET fb == call.fallbackBucket
      r == BackendRead(fallbackStore, "fallback", "getObjectStream", fb, call.key, fault)
      S == IF call.shouldCopy
           THEN NewSession(call.bucket, Slice(r.value, call.arg), r.value, {"return", "copy"},
                  [n \in {"copy"} |-> NewRepair(fb, call.bucket, call.key, call.key, "catch")])
           ELSE NewSession(call.bucket, Slice(r.value, call.arg), r.value, {"return"},
                  [n \in {} |-> NewRepair(fb, call.bucket, call.key, call.key, "catch")])
  IN
  /\ call.op = "getObjectStream"
  /\ call.pc = "fallback"
  /\ IF r.status = "ok"
     THEN /\ sessions' = <<S>>
          /\ call' = Settle([call EXCEPT !.fbCalls = @ + 1,
                                         !.launched = IF call.shouldCopy THEN 1 ELSE 0],
                            Ok([from |-> "fallback", bytes |-> Slice(r.value, call.arg)]))
     ELSE /\ sessions' = sessions
          /\ call' = Settle([call EXCEPT !.fbCalls = @ + 1], r)
  /\ issued' = {BackendCall("fallback", "getObjectStream", fb, call.key, call.bucket)}
  /\ finished' = NoEvent
  /\ UNCHANGED <<adapter, factory, Settings, primaryStore, fallbackStore, nOps>>

WrappedMethods == {"getObjectMd5Hash", "getObjectSize", "checkIfObjectExists", "directorySize"}

\* seeded fault: the wrapped methods never start a repair (C32)
WrapFallbackPrimary_NoRepair(method, bucket, key, fault) ==
  LET r == BackendRead(primaryStore, "primary", method, bucket, key, fault)
      c == [NewCall(method, bucket, key, Undefined) EXCEPT
              !.primaryHad = Has(primaryStore, bucket, key),
              !.primaryError = IF r.status = "error" THEN r.error ELSE NoError]
  IN
  /\ CanStartRead
  /\ key \in (IF method = "directorySize" THEN Prefixes ELSE Keys)
  /\ call' = IF r.status = "ok" THEN Settle(c, r)
             ELSE IF IsNotFoundError(r.error)
             THEN [c EXCEPT !.pc = "fallback", !.fallbackBucket = _getFallbackBucket(bucket)]
             ELSE Settle(c, r)
  /\ nOps' = nOps + 1
  /\ issued' = {BackendCall("primary", method, bucket, key, bucket)}
  /\ finished' = NoEvent
  /\ UNCHANGED <<adapter, factory, Settings, primaryStore, fallbackStore, sessions>>

\* lines 120-126 and 145: the method on primary
WrapFallbackPrimary(method, bucket, key, fault) ==
  LET r == BackendRead(primaryStore, "primary", method, bucket, key, fault)
      c == [NewCall(method, bucket, key, Undefined) EXCEPT
              !.primaryHad = Has(primaryStore, bucket, key),
              !.primaryError = IF r.status = "error" THEN r.error ELSE NoError]
  IN
  /\ CanStartRead
  /\ key \in (IF method = "directorySize" THEN Prefixes ELSE Keys)
  /\ call' = IF r.status = "ok" THEN Settle(c, r)
             ELSE IF IsNotFoundError(r.error)
             THEN [c EXCEPT !.pc = IF Settings.copyOnMiss THEN "fallbackStream" ELSE "fallback",
                            !.fallbackBucket = _getFallbackBucket(bucket)]
             ELSE Settle(c, r)
  /\ nOps' = nOps + 1
  /\ issued' = {BackendCall("primary", method, bucket, key, bucket)}
  /\ finished' = NoEvent
  /\ UNCHANGED <<adapter, factory, Settings, primaryStore, fallbackStore, sessions>>

\* lines 127-141: with copyOnMiss, open the object on fallback and start a repair
WrapFallbackStream(fault) ==
  LET fb == call.fallbackBucket
      r == BackendRead(fallbackStore, "fallback", "getObjectStream", fb, call.key, fault)
      S == NewSession(call.bucket, r.value, r.value, {"copy"},
             [n \in {"copy"} |-> NewRepair(fb, call.bucket, call.key, call.key, "catch")])
  IN
  /\ call.op \in WrappedMethods
  /\ call.pc = "fallbackStream"
  /\ IF r.status = "ok"
     THEN /\ sessions' = <<S>>
          /\ call' = [call EXCEPT !.pc = "fallback", !.fbCalls = @ + 1, !.launched = 1]
     ELSE /\ sessions' = sessions
          /\ call' = Settle([call EXCEPT !.fbCalls = @ + 1], r)
  /\ issued' = {BackendCall("fallback", "getObjectStream", fb, call.key, call.bucket)}
  /\ finished' = NoEvent
  /\ UNCHANGED <<adapter, factory, Settings, primaryStore, fallbackStore, nOps>>

\* line 143: the method on fallback
WrapFallbackMethod(fault) ==
  LET fb == call.fallbackBucket
      r == BackendRead(fallbackStore, "fallback", call.op, fb, call.key, fault)
  IN
  /\ call.op \in WrappedMethods
  /\ call.pc = "fallback"
  /\ call' = Settle([call EXCEPT !.fbCalls = @ + 1], r)
  /\ issued' = {BackendCall("fallback", call.op, fb, call.key, call.bucket)}
  /\ finished' = NoEvent
  /\ UNCHANGED <<adapter, factory, Settings, primaryStore, fallbackStore, sessions, nOps>>

\* lines 72-76 and 111: copyObject on primary
CopyObjectPrimary(bucket, sourceKey, destKey, fault) ==
  LET r == BackendRead(primaryStore, "primary", "copyObject", bucket, sourceKey, fault)
      c == [NewCall("copyObject", bucket, sourceKey, destKey) EXCEPT
              !.primaryHad = Has(primaryStore, bucket, sourceKey),
              !.primaryError = IF r.status = "error" THEN r.error ELSE NoError]
  IN
  /\ CanStartRead
  /\ IF r.status = "ok"
     THEN /\ primaryStore' = [primaryStore EXCEPT ![bucket][destKey] = r.value]
          /\ call' = Settle(c, Ok(Undefined))
     ELSE /\ primaryStore' = primaryStore
          /\ call' = IF IsNotFoundError(r.error)
                     THEN [c EXCEPT !.pc = "fallback", !.fallbackBucket = _getFallbackBucket(bucket)]
                     ELSE Settle(c, r)
  /\ nOps' = nOps + 1
  /\ issued' = {BackendCall("primary", "copyObject", bucket, sourceKey, bucket)}
  /\ finished' = NoEvent
  /\ UNCHANGED <<adapter, factory, Settings, fallbackStore, sessions>>

\* lines 77-109: the source on fallback, teed to the copy and to the repair of the source
CopyObjectFallback(fault) ==
  LET fb == call.fallbackBucket
      r == BackendRead(fallbackStore, "fallback", "getObjectStream", fb, call.key, fault)
      copy == NewRepair(fb, call.bucket, call.key, call.arg, "await")
      miss == NewRepair(fb, call.bucket, call.key, call.key, "then")
      S == IF Settings.copyOnMiss
           THEN NewSession(call.bucket, r.value, r.value, {"copy", "miss"},
                  [n \in {"copy", "miss"} |-> IF n = "copy" THEN copy ELSE miss])
           ELSE NewSession(call.bucket, r.value, r.value, {"copy"}, [n \in {"copy"} |-> copy])
  IN
  /\ call.op = "copyObject"
  /\ call.pc = "fallback"
  /\ IF r.status = "ok"
     THEN /\ sessions' = <<S>>
          /\ call' = [call EXCEPT !.pc = "awaitCopy", !.fbCalls = @ + 1,
                                  !.launched = IF Settings.copyOnMiss THEN 1 ELSE 0]
     ELSE /\ sessions' = sessions
          /\ call' = Settle([call EXCEPT !.fbCalls = @ + 1], r)
  /\ issued' = {BackendCall("fallback", "getObjectStream", fb, call.key, call.bucket)}
  /\ finished' = NoEvent
  /\ UNCHANGED <<adapter, factory, Settings, primaryStore, fallbackStore, nOps>>

DualMethods == {"deleteObject", "deleteDirectory"}

\* lines 23-29: both calls are made before Promise.all is awaited
DeleteStart(method, bucket, key) ==
  /\ CanStart
  /\ key \in (IF method = "deleteDirectory" THEN Prefixes ELSE Keys)
  /\ call' = [NewCall(method, bucket, key, Undefined) EXCEPT
                !.pc = "both", !.p = "pending", !.f = "pending", !.fbCalls = 1,
                !.fallbackBucket = _getFallbackBucket(bucket)]
  /\ nOps' = nOps + 1
  /\ issued' = {BackendCall("primary", method, bucket, key, bucket),
                BackendCall("fallback", method, _getFallbackBucket(bucket), key, bucket)}
  /\ finished' = NoEvent
  /\ UNCHANGED <<adapter, factory, Settings, primaryStore, fallbackStore, sessions>>

\* seeded fault: Promise.race in place of Promise.all (C4)
PromiseAll_Race(c, other, r) ==
  IF c.result.status # "pending" THEN c
  ELSE IF r.status = "error" THEN Settle(c, r)
  ELSE Settle(c, Ok(Undefined))

\* Promise.all: rejects with the first rejection, resolves when both have resolved
PromiseAll(c, other, r) ==
  IF c.result.status # "pending" THEN c
  ELSE IF r.status = "error" THEN Settle(c, r)
  ELSE IF other = "ok" THEN Settle(c, Ok(Undefined))
  ELSE c

\* the deletion on primary settles
DeletePrimarySettle(fault) ==
  LET r == BackendDeleteResult(primaryStore, "primary", call.op, call.bucket, fault) IN
  /\ call.op \in DualMethods
  /\ call.p = "pending"
  /\ primaryStore' = IF r.status = "ok"
                     THEN BackendDelete(primaryStore, call.op, call.bucket, call.key)
                     ELSE primaryStore
  /\ call' = [PromiseAll(call, call.f, r) EXCEPT !.p = r.status]
  /\ issued' = {}
  /\ finished' = NoEvent
  /\ UNCHANGED <<adapter, factory, Settings, fallbackStore, sessions, nOps>>

\* the deletion on fallback settles
DeleteFallbackSettle(fault) ==
  LET r == BackendDeleteResult(fallbackStore, "fallback", call.op, call.fallbackBucket, fault) IN
  /\ call.op \in DualMethods
  /\ call.f = "pending"
  /\ fallbackStore' = IF r.status = "ok"
                      THEN BackendDelete(fallbackStore, call.op, call.fallbackBucket, call.key)
                      ELSE fallbackStore
  /\ call' = [PromiseAll(call, call.p, r) EXCEPT !.f = r.status]
  /\ issued' = {}
  /\ finished' = NoEvent
  /\ UNCHANGED <<adapter, factory, Settings, primaryStore, sessions, nOps>>

\* seeded fault: uploads are mirrored to fallback (C11)
SendStream_Mirrored(bucket, key, fault) ==
  /\ CanStart
  /\ primaryStore' = IF fault THEN primaryStore
                     ELSE [primaryStore EXCEPT ![bucket][key] = NewObject]
  /\ fallbackStore' = IF fault \/ _getFallbackBucket(bucket) \notin DOMAIN fallbackStore
                      THEN fallbackStore
                      ELSE [fallbackStore EXCEPT ![_getFallbackBucket(bucket)][key] = NewObject]
  /\ call' = Settle(NewCall("sendStream", bucket, key, NewObject),
                    IF fault THEN Fail(BackendError("WriteError", "primary", "sendStream"))
                    ELSE Ok(Undefined))
  /\ nOps' = nOps + 1
  /\ issued' = {BackendCall("primary", "sendStream", bucket, key, bucket)}
  /\ finished' = NoEvent
  /\ UNCHANGED <<adapter, factory, Settings, sessions>>

\* line 220: sendStream is primary's
SendStream(bucket, key, fault) ==
  /\ CanStart
  /\ primaryStore' = IF fault THEN primaryStore
                     ELSE [primaryStore EXCEPT ![bucket][key] = NewObject]
  /\ call' = Settle(NewCall("sendStream", bucket, key, NewObject),
                    IF fault THEN Fail(BackendError("WriteError", "primary", "sendStream"))
                    ELSE Ok(Undefined))
  /\ nOps' = nOps + 1
  /\ issued' = {BackendCall("primary", "sendStream", bucket, key, bucket)}
  /\ finished' = NoEvent
  /\ UNCHANGED <<adapter, factory, Settings, fallbackStore, sessions>>

\* the signed URL primary gives for an object
RedirectUrl(bucket, key) == <<"url", bucket, key>>

\* line 219: sendFile is primary's; primary sends the stream of the local file
SendFile(bucket, key, fault) ==
  /\ CanStartRead
  /\ primaryStore' = IF fault THEN primaryStore
                     ELSE [primaryStore EXCEPT ![bucket][key] = NewObject]
  /\ call' = Settle(NewCall("sendFile", bucket, key, NewObject),
                    IF fault THEN Fail(BackendError("WriteError", "primary", "sendFile"))
                    ELSE Ok(Undefined))
  /\ nOps' = nOps + 1
  /\ issued' = {BackendCall("primary", "sendFile", bucket, key, bucket)}
  /\ finished' = NoEvent
  /\ UNCHANGED <<adapter, factory, Settings, fallbackStore, sessions>>

\* line 222: getRedirectUrl is primary's
GetRedirectUrl(bucket, key, fault) ==
  /\ CanStartRead
  /\ call' = Settle(NewCall("getRedirectUrl", bucket, key, Undefined),
                    IF fault THEN Fail(BackendError("ReadError", "primary", "getRedirectUrl"))
                    ELSE Ok(RedirectUrl(bucket, key)))
  /\ nOps' = nOps + 1
  /\ issued' = {BackendCall("primary", "getRedirectUrl", bucket, key, bucket)}
  /\ finished' = NoEvent
  /\ UNCHANGED <<adapter, factory, Settings, primaryStore, fallbackStore, sessions>>

----------------------------------------------------------------------------
(* Specification *)

\* no adapter operation and no call of the factory is under way
Idle == <<>>

Init ==
  /\ adapter = Idle
  /\ factory = Idle
  /\ Settings \in [copyOnMiss : BOOLEAN, buckets : MappingTables]
  /\ primaryStore = [b \in Buckets |-> [k \in Keys |-> Absent]]
  /\ fallbackStore = [b \in FallbackBuckets |->
                        [k \in Keys |-> IF k = <<"d", "s">> THEN OldObject ELSE Absent]]
  /\ call = NoCall
  /\ sessions = <<>>
  /\ finished = NoEvent
  /\ nOps = 0
  /\ issued = {}

Next ==
  \/ \E b \in Buckets, k \in Keys, o \in OptsSet, fault \in BOOLEAN :
       GetObjectStreamPrimary(b, k, o, fault)
  \/ \E fault \in BOOLEAN : GetObjectStreamFallback(fault)
  \/ \E m \in WrappedMethods, b \in Buckets, k \in Keys \cup Prefixes, fault \in BOOLEAN :
       WrapFallbackPrimary(m, b, k, fault)
  \/ \E fault \in BOOLEAN : WrapFallbackStream(fault)
  \/ \E fault \in BOOLEAN : WrapFallbackMethod(fault)
  \/ \E b \in Buckets, s \in Keys, d \in Keys, fault \in BOOLEAN :
       CopyObjectPrimary(b, s, d, fault)
  \/ \E fault \in BOOLEAN : CopyObjectFallback(fault)
  \/ \E m \in DualMethods, b \in Buckets, k \in Keys \cup Prefixes : DeleteStart(m, b, k)
  \/ \E fault \in BOOLEAN : DeletePrimarySettle(fault)
  \/ \E fault \in BOOLEAN : DeleteFallbackSettle(fault)
  \/ \E b \in Buckets, k \in Keys, fault \in BOOLEAN : SendStream(b, k, fault)
  \/ \E b \in Buckets, k \in Keys, fault \in BOOLEAN : SendFile(b, k, fault)
  \/ \E b \in Buckets, k \in Keys, fault \in BOOLEAN : GetRedirectUrl(b, k, fault)
  \/ \E s \in 1..Len(sessions) : TeeEmit(s)
  \/ \E s \in 1..Len(sessions) : CallerRead(s)
  \/ \E s \in 1..Len(sessions), n \in {"copy", "miss"}, fault \in BOOLEAN :
       n \in DOMAIN sessions[s].rep /\ RepairHash(s, n, fault)
  \/ \E s \in 1..Len(sessions), n \in {"copy", "miss"} :
       n \in DOMAIN sessions[s].rep /\ RepairConsume(s, n)
  \/ \E s \in 1..Len(sessions), n \in {"copy", "miss"} :
       n \in DOMAIN sessions[s].rep /\ RepairWriteOk(s, n)
  \/ \E s \in 1..Len(sessions), n \in {"copy", "miss"}, effect \in {"destroy", "abandon"},
        artifact \in BOOLEAN :
       n \in DOMAIN sessions[s].rep /\ RepairWriteFail(s, n, effect, artifact)
  \/ \E s \in 1..Len(sessions), n \in {"copy", "miss"}, fault \in BOOLEAN :
       n \in DOMAIN sessions[s].rep /\ RepairCleanup(s, n, fault)

Spec == Init /\ [][Next]_vars

----------------------------------------------------------------------------
(* What the properties observe *)

\* the streams opened on fallback that are open or ended in the last step
Streams ==
  {sessions[i] : i \in 1..Len(sessions)} \cup {finished.stream[i] : i \in 1..Len(finished.stream)}

\* the runs of _copyStreamFromFallbackAndVerify that returned in the last step
ReturnedRepairs == {finished.repair[i] : i \in 1..Len(finished.repair)}

\* the foreground call has returned to its caller
Done == call.pc = "done"

Failed == Done /\ call.result.status = "error"

\* the operations that read an object and fall back when primary lacks it
ObjectReads == {"getObjectStream", "getObjectMd5Hash", "getObjectSize", "copyObject"}

\* the operations that run on primary first (lines 33, 72 and 119)
PrimaryFirst == ObjectReads \cup {"checkIfObjectExists", "directorySize"}

----------------------------------------------------------------------------
(* C1 *)

\* C1: when getObjectStream falls back and fallback serves the object, the
\* stream handed to the caller never errors, and when it ends the caller has
\* read exactly the bytes fallback streamed; the call itself fails only with
\* an error of fallback.
C1_CallerReceivesFallbackBytes ==
  /\ \A S \in Streams :
       "return" \in DOMAIN S.br =>
         /\ S.outcome # "error"
         /\ S.outcome = "end" => S.delivered = S.src
  /\ (call.op = "getObjectStream" /\ Failed /\ call.fbCalls = 1) =>
       call.result.error.origin = "fallback"

----------------------------------------------------------------------------
(* C2 *)

C2_WitnessServed ==
  /\ Done
  /\ call.op \in ObjectReads
  /\ call.result.status = "ok"
  /\ ~call.primaryHad
  /\ call.fbCalls = 1

----------------------------------------------------------------------------
(* C3 *)

\* C3: when primary fails with an error that is not a NotFoundError, the
\* operation fails with that same error, fallback is not called and no
\* repair is started.
C3_PrimaryErrorRethrown ==
  (Done /\ call.op \in PrimaryFirst /\ call.primaryError.kind \notin {"none", "NotFoundError"}) =>
    /\ call.result = Fail(call.primaryError)
    /\ call.result.error.origin = "primary"
    /\ call.fbCalls = 0
    /\ call.launched = 0
    /\ sessions = <<>>
    /\ \A c \in issued : c.backend = "primary"

\* primary has failed a fallback-capable operation with a ReadError or WriteError
C3_Witness ==
  /\ Failed
  /\ call.op \in PrimaryFirst
  /\ call.primaryError.kind \in {"ReadError", "WriteError"}
  /\ call.result.error = call.primaryError

----------------------------------------------------------------------------
(* C4 *)

\* C4: deleteObject and deleteDirectory have both deletions in flight at once,
\* primary's on the caller's bucket and fallback's on the bucket the lookup
\* gives; the operation succeeds exactly when both have succeeded and fails
\* as soon as either fails, whatever the other deletion has done or will do.
C4_DualDeleteJointOutcome ==
  call.op \in DualMethods =>
    /\ call.p # "none" /\ call.f # "none"
    /\ call.fallbackBucket = _getFallbackBucket(call.bucket)
    /\ \A c \in issued :
         (c.backend = "fallback" /\ c.method \in DualMethods) =>
           /\ call.p = "pending" /\ call.f = "pending"
           /\ issued = {BackendCall("primary", call.op, call.bucket, call.key, call.bucket),
                        BackendCall("fallback", call.op, call.fallbackBucket, call.key, call.bucket)}
    /\ (Done /\ call.result.status = "ok") <=> (call.p = "ok" /\ call.f = "ok")
    /\ (call.p = "error" \/ call.f = "error") => Failed
    /\ Failed => call.result.error.method = call.op
    /\ (call.f = "ok" /\ call.op = "deleteObject") =>
         ~Has(fallbackStore, call.fallbackBucket, call.key)

\* a deleteObject has failed on primary's error although fallback's deletion
\* removed the object
C4_Witness ==
  /\ call.op = "deleteObject"
  /\ Failed
  /\ call.p = "error"
  /\ call.f = "ok"
  /\ call.key = <<"d", "s">>
  /\ ~Has(fallbackStore, call.fallbackBucket, call.key)

----------------------------------------------------------------------------
(* C5 *)

\* the bucket the mapping table gives: the entry for the bucket, else the bucket
MappedBucket(bucket) ==
  IF bucket \in DOMAIN Settings.buckets THEN Settings.buckets[bucket] ELSE bucket

\* C5: every call made to fallback uses the bucket the mapping table gives for
\* the caller's bucket, the caller's bucket itself when the table has no entry
\* for it; every call made to primary uses the caller's bucket.
C5_FallbackBucketLookup ==
  \A c \in issued :
    /\ c.backend = "fallback" => c.bucket = MappedBucket(c.caller)
    /\ c.backend = "primary" => c.bucket = c.caller

----------------------------------------------------------------------------
(* C6 *)

\* C6: a copyObject served from fallback returns when the write of the
\* destination into primary returns: with success once primary holds the
\* whole source object at the destination key, with the WriteError of the
\* repair when that write fails; it has not returned while the write runs.
C6_CopyObjectAwaitsWrite ==
  /\ \A R \in ReturnedRepairs :
       R.handler = "await" =>
         /\ call.op = "copyObject" /\ Done
         /\ R.destBucket = call.bucket /\ R.destKey = call.arg /\ R.sourceKey = call.key
         /\ R.error = NoError =>
              /\ call.result.status = "ok"
              /\ primaryStore[R.destBucket][R.destKey] = R.full
         /\ R.error # NoError =>
              /\ call.result = Fail(R.error)
              /\ R.error.kind = "WriteError"
  /\ \A S \in Streams :
       ("copy" \in DOMAIN S.rep /\ S.rep["copy"].handler = "await" /\ S.rep["copy"].pc # "done") =>
         (call.op = "copyObject" /\ call.pc = "awaitCopy")

\* copyObject has returned with success after copying from fallback
C6_Witness ==
  \E R \in ReturnedRepairs :
    /\ R.handler = "await"
    /\ R.error = NoError
    /\ call.op = "copyObject" /\ Done /\ call.result.status = "ok"
    /\ primaryStore[call.bucket][call.arg] = OldObject

----------------------------------------------------------------------------
(* C7 *)

\* the reads and their background work, with deletes and uploads in between
NextRead ==
  \/ \E b \in Buckets, k \in Keys, o \in OptsSet, fault \in BOOLEAN :
       GetObjectStreamPrimary(b, k, o, fault)
  \/ \E fault \in BOOLEAN : GetObjectStreamFallback(fault)
  \/ \E b \in Buckets, k \in Keys : DeleteStart("deleteObject", b, k)
  \/ \E fault \in BOOLEAN : DeletePrimarySettle(fault)
  \/ \E fault \in BOOLEAN : DeleteFallbackSettle(fault)
  \/ \E b \in Buckets, k \in Keys, fault \in BOOLEAN : SendStream(b, k, fault)
  \/ \E s \in 1..Len(sessions) : TeeEmit(s)
  \/ \E s \in 1..Len(sessions) : CallerRead(s)
  \/ \E s \in 1..Len(sessions), fault \in BOOLEAN :
       "copy" \in DOMAIN sessions[s].rep /\ RepairHash(s, "copy", fault)
  \/ \E s \in 1..Len(sessions) :
       "copy" \in DOMAIN sessions[s].rep /\ RepairConsume(s, "copy")
  \/ \E s \in 1..Len(sessions) :
       "copy" \in DOMAIN sessions[s].rep /\ RepairWriteOk(s, "copy")
  \/ \E s \in 1..Len(sessions), effect \in {"destroy", "abandon"}, artifact \in BOOLEAN :
       "copy" \in DOMAIN sessions[s].rep /\ RepairWriteFail(s, "copy", effect, artifact)
  \/ \E s \in 1..Len(sessions), fault \in BOOLEAN :
       "copy" \in DOMAIN sessions[s].rep /\ RepairCleanup(s, "copy", fault)

\* the event loop runs every stream and every pending continuation; the
\* caller keeps reading the stream it was given; a backend call returns
Fairness ==
  /\ WF_vars(\E s \in 1..Len(sessions) : TeeEmit(s))
  /\ WF_vars(\E s \in 1..Len(sessions) : CallerRead(s))
  /\ WF_vars(\E s \in 1..Len(sessions), fault \in BOOLEAN :
               "copy" \in DOMAIN sessions[s].rep /\ RepairHash(s, "copy", fault))
  /\ WF_vars(\E s \in 1..Len(sessions) :
               "copy" \in DOMAIN sessions[s].rep /\ RepairConsume(s, "copy"))
  /\ WF_vars(\E s \in 1..Len(sessions) :
               "copy" \in DOMAIN sessions[s].rep /\ RepairWriteOk(s, "copy"))

FairSpec == Init /\ [][NextRead]_vars /\ Fairness

\* getObjectStream has started the repair of a key from the whole object
RepairOfWholeObjectRunning ==
  \E S \in Streams :
    /\ "return" \in DOMAIN S.br
    /\ "copy" \in DOMAIN S.rep
    /\ S.rep["copy"].pc \in {"hash", "write"}
    /\ S.src = S.full

\* the repair has returned and primary holds the key with the bytes of fallback
RepairedFromFallback ==
  \E R \in ReturnedRepairs :
    /\ R.handler = "catch"
    /\ R.error = NoError
    /\ primaryStore[R.destBucket][R.destKey] = R.full
    /\ BackendRead(primaryStore, "primary", "getObjectMd5Hash", R.destBucket, R.destKey, FALSE)
         = Ok(Md5(R.full))

\* primary has refused the write of the repair
WriteRefused ==
  \E S \in Streams : "copy" \in DOMAIN S.rep /\ S.rep["copy"].pc = "cleanup"

\* C7: with copy-on-miss, once a getObjectStream of a whole object has fallen
\* back, a caller that keeps reading and a primary that accepts the write
\* lead to primary holding the key with the bytes and the hash of fallback.
C7_CopyOnMissRepairs == RepairOfWholeObjectRunning ~> (RepairedFromFallback \/ WriteRefused)

\* the repair started by a getObjectStream has written the key into primary
C7_Witness ==
  /\ RepairedFromFallback
  /\ call.op = "getObjectStream"
  /\ Settings.copyOnMiss
  /\ \E R \in ReturnedRepairs : R.written = OldObject /\ R.sourceMd5 = Md5(OldObject)

----------------------------------------------------------------------------
(* C8 *)

\* C8: no failure of a background repair leaves the place it was launched
\* from as a rejected promise nobody handles.
C8_RepairFailuresContained ==
  \A R \in ReturnedRepairs :
    (R.handler # "await" /\ R.error # NoError) => ~R.escaped

----------------------------------------------------------------------------
(* C9 *)

\* C9: a run of the repair primitive whose write failed has made exactly one
\* deleteObject, of the destination key in the destination bucket of primary,
\* and fails with a WriteError that names source and destination and carries
\* the write failure as its cause; cleanupError is in its info exactly when
\* the delete failed.
C9_CleanupAfterFailedWrite ==
  \A R \in ReturnedRepairs :
    R.error # NoError =>
      /\ R.cleanups = 1
      /\ issued = {BackendCall("primary", "deleteObject", R.destBucket, R.destKey, R.destBucket)}
      /\ R.error.kind = "WriteError"
      /\ R.error.cause = BackendError("WriteError", "primary", "sendStream")
      /\ \A x \in {"sourceBucket", "destBucket", "sourceKey", "destKey"} :
           x \in DOMAIN R.error.info /\ R.error.info[x] = R[x]
      /\ "cleanupError" \in DOMAIN R.error.info <=> R.deleteFailed
      /\ R.deleteFailed => R.error.info.cleanupError.kind = "WriteError"
      /\ ~R.deleteFailed => ~Has(primaryStore, R.destBucket, R.destKey)

\* a copy to another key has failed and its cleanup delete has failed too
C9_Witness ==
  \E R \in ReturnedRepairs :
    /\ R.error # NoError
    /\ R.sourceKey # R.destKey
    /\ R.deleteFailed
    /\ "cleanupError" \in DOMAIN R.error.info

----------------------------------------------------------------------------
(* C10 *)

\* C10: when a run of the repair primitive returns, with success or with a
\* failure whose cleanup delete succeeded, the destination key of primary is
\* absent or holds the whole object of fallback.
C10_DestinationAbsentOrComplete ==
  \A R \in ReturnedRepairs :
    (R.error = NoError \/ ~R.deleteFailed) =>
      primaryStore[R.destBucket][R.destKey] \in {Absent, R.full}

----------------------------------------------------------------------------
(* C11 *)

\* the operations the Migration Persistor takes from primary as they are
PrimaryOnly == {"sendFile", "sendStream", "getRedirectUrl"}

\* the step in which the caller's operation was served by primary alone
ServedByPrimary ==
  /\ nOps' = nOps + 1
  /\ \/ call'.op \in PrimaryOnly
     \/ call'.op = "copyObject" /\ call'.pc = "done" /\ call'.result.status = "ok"

\* C11: sendFile, sendStream and getRedirectUrl, and a copyObject that
\* primary's copyObject serves, call primary only, with the caller's bucket,
\* and leave the contents of fallback as they were.
C11_PrimaryOnlyPassthrough ==
  [][ServedByPrimary =>
       /\ fallbackStore' = fallbackStore
       /\ call'.fbCalls = 0
       /\ issued' # {}
       /\ \A c \in issued' : c.backend = "primary" /\ c.bucket = call'.bucket /\ c.method = call'.op
     ]_vars

\* primary has copied an object it held, and fallback still holds its own
C11_Witness ==
  /\ call.op = "copyObject"
  /\ Done
  /\ call.result.status = "ok"
  /\ call.primaryHad
  /\ call.fbCalls = 0
  /\ primaryStore[call.bucket][call.arg] = NewObject
  /\ Has(fallbackStore, _getFallbackBucket(call.bucket), call.key)

----------------------------------------------------------------------------
(* The S3 and GCS adapters (src/src/S3Persistor.js, src/src/GcsPersistor.js) *)
(* over one bucket of a backend.  An adapter operation is one step: the     *)
(* requests it makes to the backend, each answered as the step's inputs     *)
(* say, and what it returns or throws.                                      *)

\* operations on an adapter in one behaviour
MaxAdapterOps == 2

\* objects a listing page of S3 holds at most
PageSize == 1

AdapterKinds == {"s3", "gcs"}

\* the keys of the bucket, in the order a listing returns them
KeyOrder == << <<"d", "s">>, <<"d", "t">>, <<"e", "u">> >>

AdapterKeys == {KeyOrder[i] : i \in 1..Len(KeyOrder)}

\* prefixes a caller lists: two keys, one key, no key
AdapterPrefixes == {<<"d">>, <<"f">>}

\* how the backend answers a request: as its contents say, with a not-found
\* signal (404), or with another failure
Modes == {"answer", "notFound", "failure"}

\* what the bucket holds under a key; no bytes: no object.  etagMd5 says
\* whether the ETag S3 reports is the MD5 of the object (it is not for a
\* multipart upload); uploaded are the bytes a successful sendStream was given
NoObject == [bytes |-> <<>>, etagMd5 |-> TRUE, uploaded |-> <<>>]

\* no request is made: the adapter has no client for the bucket
NoClient == "noClient"

\* errors of the backend's client library
Backend404 == [kind |-> "backend", code |-> 404]

Backend500 == [kind |-> "backend", code |-> 500]

\* the bucket the adapter is used with
AdapterBucket == "a"

\* what S3Persistor._getClientForBucket throws
NoCredentials ==
  [kind |-> "SettingsError", message |-> "no bucket-specific or default credentials provided",
   info |-> [bucket |-> AdapterBucket], cause |-> NoError]

\* S3Persistor._getClientForBucket: the bucket's own credentials, else the
\* default ones, else no client
HasClient(kind, settings) == kind = "gcs" \/ settings.bucketCreds \/ settings.key

\* how a request of the operation ends: without a client it is never made
ClientMode(kind, settings, mode) == IF HasClient(kind, settings) THEN mode ELSE NoClient

\* the error of a request that is not answered
ModeError(mode) ==
  IF mode = NoClient THEN NoCredentials
  ELSE IF mode = "notFound" THEN Backend404
  ELSE Backend500

\* the two encodings of a digest
Hex(digest) == <<"hex", digest>>

Base64(digest) == <<"base64", digest>>

\* PersistorHelper.hexToBase64 and base64ToHex
hexToBase64(h) == IF h[1] = "hex" THEN Base64(h[2]) ELSE <<"invalid", h>>

base64ToHex(h) == IF h[1] = "base64" THEN Hex(h[2]) ELSE <<"invalid", h>>

\* the error carries the backend's not-found signal, or is a NotFoundError
CarriesNotFound(err) ==
  \/ err.kind = "NotFoundError"
  \/ err.kind = "backend" /\ err.code = 404

\* PersistorHelper.wrapError
wrapError(err, message, info, requestedKind) ==
  [kind |-> IF CarriesNotFound(err) THEN "NotFoundError" ELSE requestedKind,
   message |-> message, info |-> info, cause |-> err]

\* the backend's answer to a request for one object: the object, or an error
Fetch(objects, key, mode) ==
  IF mode \in {"failure", NoClient} THEN Fail(ModeError(mode))
  ELSE IF mode = "notFound" \/ objects[key].bytes = <<>> THEN Fail(Backend404)
  ELSE Ok(objects[key])

\* bytes that differ from the bytes sent: the upload was damaged on its way
Damaged(bytes) == <<0>> \o Tail(bytes)

\* S3Persistor._md5FromResponse: the ETag when it has the form of an MD5, else null
_md5FromResponse(object) ==
  IF object.etagMd5 THEN Hex(Md5(object.bytes)) ELSE NoMd5

\* what an adapter operation leaves: the bucket and the result, with the
\* hashes a sendStream compared and the requests it made to the backend
Outcome(objects, result, sourceMd5, destMd5, requests) ==
  [objects |-> objects, result |-> result, sourceMd5 |-> sourceMd5, destMd5 |-> destMd5,
   requests |-> requests]

\* { bucketName, key }
Info(key) == [bucketName |-> AdapterBucket, key |-> key]

BadDigest == [kind |-> "backend", code |-> 400]

\* getObjectStream of both adapters: the bytes of the stream it returns.  S3
\* gets its client before the try block
getObjectStream(kind, objects, key, opts, mode) ==
  LET r == Fetch(objects, key, mode) IN
  IF r.status = "ok" THEN Ok(Slice(r.value.bytes, opts))
  ELSE IF mode = NoClient THEN r
  ELSE Fail(wrapError(r.error,
                      IF kind = "s3" THEN "error reading file from S3"
                      ELSE "error reading file from GCS",
                      Info(key) @@ [opts |-> opts], "ReadError"))

\* getObjectSize: ContentLength of headObject, metadata.size of getMetadata
getObjectSize(kind, objects, key, mode) ==
  LET r == Fetch(objects, key, mode) IN
  IF r.status = "ok" THEN Ok(Len(r.value.bytes))
  ELSE Fail(wrapError(r.error,
                      IF kind = "s3" THEN "error getting size of s3 object"
                      ELSE "error getting size of GCS object",
                      Info(key), "ReadError"))

\* getObjectMd5Hash: the ETag of headObject, metadata.md5Hash of getMetadata
getObjectMd5Hash(kind, objects, key, mode) ==
  LET r == Fetch(objects, key, mode) IN
  IF r.status = "ok"
  THEN IF kind = "s3" THEN Ok(_md5FromResponse(r.value))
       ELSE Ok(base64ToHex(Base64(Md5(r.value.bytes))))
  ELSE Fail(wrapError(r.error,
                      IF kind = "s3" THEN "error getting hash of s3 object"
                      ELSE "error getting hash of GCS object",
                      Info(key), "ReadError"))

\* checkIfObjectExists: S3 asks for the size and takes a NotFoundError for
\* "no"; GCS asks file.exists() and wraps whatever that throws
checkIfObjectExists(kind, objects, key, mode) ==
  IF kind = "s3"
  THEN LET r == getObjectSize("s3", objects, key, mode) IN
       IF r.status = "ok" THEN Ok(TRUE)
       ELSE IF r.error.kind = "NotFoundError" THEN Ok(FALSE)
       ELSE Fail(wrapError(r.error, "error checking whether S3 object exists",
                           Info(key), "ReadError"))
  ELSE IF mode = "answer" THEN Ok(objects[key].bytes # <<>>)
       ELSE Fail(wrapError(IF mode = "notFound" THEN Backend404 ELSE Backend500,
                           "error checking if file exists in GCS", Info(key), "ReadError"))

\* PersistorHelper.verifyMd5 on a mismatch
Md5Mismatch(key, sourceMd5, destMd5) ==
  [kind |-> "WriteError", message |-> "md5 hash mismatch",
   info |-> Info(key) @@ [sourceMd5 |-> sourceMd5, destMd5 |-> destMd5], cause |-> NoError]

\* seeded fault: the uploaded object is never compared with what was sent (C12)
NeedsVerify_Never(sourceMd5) == FALSE

\* if (!sourceMd5): the adapter has to compare the hashes itself
NeedsVerify(sourceMd5) == sourceMd5 = NoMd5

\* sendStream of both adapters.  `sent` are the bytes of readStream, `transit`
\* says whether the backend received them intact, `etagMd5` what kind of ETag
\* S3 gives the object, `checkMode` how the backend answers the request the
\* adapter makes for the destination hash
sendStream(kind, objects, key, sent, sourceMd5, transit, upMode, etagMd5, checkMode) ==
  LET stored == IF transit = "intact" THEN sent ELSE Damaged(sent)
      observed == Hex(Md5(sent))
      compared == IF NeedsVerify(sourceMd5) THEN observed ELSE sourceMd5
      thrown(err, objs, destMd5, requests) ==
        Outcome(objs, Fail(wrapError(err, IF kind = "s3" THEN "upload to S3 failed"
                                          ELSE "upload to GCS failed",
                                     Info(key), "WriteError")), compared, destMd5, requests)
      upload == IF kind = "s3" THEN <<"upload">> ELSE <<"createWriteStream">>
      refused == sourceMd5 # NoMd5 /\ hexToBase64(sourceMd5) # Base64(Md5(stored))
      written == [objects EXCEPT ![key] =
                    [bytes |-> stored, etagMd5 |-> (kind = "gcs" \/ etagMd5), uploaded |-> <<>>]]
      reread == getObjectStream("s3", written, key, NoRange, checkMode)
      fetched == getObjectMd5Hash("gcs", written, key, checkMode)
      needsCheck == IF kind = "s3" THEN _md5FromResponse(written[key]) = NoMd5
                    ELSE NeedsVerify(sourceMd5)
      check == IF kind = "s3" THEN reread ELSE fetched
      checked == IF ~needsCheck THEN <<>>
                 ELSE IF kind = "s3" THEN <<"getObject">> ELSE <<"getMetadata">>
      destMd5 == IF kind = "s3"
                 THEN IF _md5FromResponse(written[key]) # NoMd5
                      THEN _md5FromResponse(written[key])
                      ELSE Hex(Md5(reread.value))
                 ELSE IF NeedsVerify(sourceMd5) THEN fetched.value ELSE NoMd5
  IN
  IF upMode = NoClient THEN thrown(ModeError(upMode), objects, NoMd5, <<>>)
  ELSE IF upMode # "answer" THEN thrown(ModeError(upMode), objects, NoMd5, upload)
  ELSE IF refused THEN thrown(BadDigest, objects, NoMd5, upload)
  ELSE IF needsCheck /\ check.status = "error"
       THEN thrown(check.error, written, NoMd5, upload \o checked)
  ELSE IF NeedsVerify(sourceMd5) /\ observed # destMd5
       THEN thrown(Md5Mismatch(key, observed, destMd5), written, destMd5, upload \o checked)
  ELSE Outcome([written EXCEPT ![key].uploaded = sent], Ok(Undefined), compared, destMd5,
               upload \o checked)

----------------------------------------------------------------------------
(* Listings, deletes and copies of the adapters.  An operation that makes
   several backend requests numbers them; `fault` names the one request that
   the backend refuses and how, the others are answered. *)

NoFault == [at |-> 0, mode |-> "answer"]

Faults(requests) ==
  {NoFault} \cup [at : 1..requests, mode : {"notFound", "failure"}]

RequestMode(fault, r) == IF fault.at = r THEN fault.mode ELSE "answer"

RequestError(fault, r) == ModeError(RequestMode(fault, r))

Present(objects, key) == objects[key].bytes # <<>>

Removed(objects, keys) ==
  [k \in DOMAIN objects |-> IF k \in keys THEN NoObject ELSE objects[k]]

\* positions in the bucket's key order of the objects under a prefix
Under(objects, prefix) ==
  {i \in 1..Len(KeyOrder) : Present(objects, KeyOrder[i]) /\ IsPrefix(prefix, KeyOrder[i])}

RECURSIVE Sizes(_, _)
\* Contents.reduce((acc, item) => item.Size + acc, 0)
Sizes(objects, positions) ==
  IF positions = {} THEN 0
  ELSE LET i == CHOOSE x \in positions : TRUE
       IN Len(objects[KeyOrder[i]].bytes) + Sizes(objects, positions \ {i})

\* seeded fault: every page starts again from the beginning of the listing (C16)
After_Start(continuationToken) == 0

\* if (continuationToken) options.ContinuationToken = continuationToken
After(continuationToken) ==
  IF continuationToken = <<>> THEN 0 ELSE continuationToken[1]

\* listObjectsV2({ Bucket, Prefix, ContinuationToken }): at most PageSize keys
\* in key order after the token, and a token for the rest when truncated
listObjectsV2(objects, prefix, continuationToken) ==
  LET rest == {i \in Under(objects, prefix) : i > After(continuationToken)}
      page == {i \in rest : Cardinality({j \in rest : j < i}) < PageSize}
      last == CHOOSE i \in page : \A j \in page : j <= i
  IN [Contents |-> page,
      IsTruncated |-> page # rest,
      NextContinuationToken |-> IF page # rest THEN <<last>> ELSE <<>>]

\* what an operation over a directory leaves: the objects, its result, and
\* the ContinuationToken of each listing request it made, in order
Walk(objects, result, tokens) ==
  [objects |-> objects, result |-> result, tokens |-> tokens]

\* the requests of the listings and of S3Persistor.deleteDirectory
ListObjects(continuationToken) ==
  [request |-> "listObjectsV2", ContinuationToken |-> continuationToken]

DeleteObjects(keys) == [request |-> "deleteObjects", Objects |-> keys]

\* a walk with the requests it made to the backend, in order
Requesting(walk, requests) == walk @@ [requests |-> requests]

\* the single request of an operation that makes one
Request(mode, name) == IF mode = NoClient THEN <<>> ELSE <<[request |-> name]>>

RECURSIVE S3directorySize(_, _, _, _, _)
\* S3Persistor.directorySize: the recursive call is inside the try block.  A
\* listing has no more pages than the bucket has keys; a walk that goes on
\* past them never returns
S3directorySize(objects, prefix, continuationToken, fault, r) ==
  LET response == listObjectsV2(objects, prefix, continuationToken)
      size == Sizes(objects, response.Contents)
      rest == S3directorySize(objects, prefix, response.NextContinuationToken, fault, r + 1)
      thrown(err) == Fail(wrapError(err, "error getting directory size in S3",
                                    Info(prefix), "ReadError"))
  IN
  IF RequestMode(fault, r) # "answer"
  THEN Walk(objects, thrown(RequestError(fault, r)), <<continuationToken>>)
  ELSE IF r > Len(KeyOrder) + 1
  THEN Walk(objects, Pending, <<continuationToken>>)
  ELSE IF response.IsTruncated
  THEN Walk(objects,
            IF rest.result.status = "ok" THEN Ok(size + rest.result.value)
            ELSE IF rest.result.status = "pending" THEN Pending
            ELSE thrown(rest.result.error),
            <<continuationToken>> \o rest.tokens)
  ELSE Walk(objects, Ok(size), <<continuationToken>>)

\* GcsPersistor.directorySize: one getFiles, then the sum
GcsdirectorySize(objects, prefix, fault) ==
  IF RequestMode(fault, 1) # "answer"
  THEN Walk(objects, Fail(wrapError(RequestError(fault, 1), "failed to list objects in GCS",
                                    Info(prefix), "ReadError")), << <<>> >>)
  ELSE Walk(objects, Ok(Sizes(objects, Under(objects, prefix))), << <<>> >>)

directorySize(kind, objects, prefix, fault) ==
  IF kind = "s3" THEN S3directorySize(objects, prefix, <<>>, fault, 1)
  ELSE GcsdirectorySize(objects, prefix, fault)

\* the listing requests a directorySize made
Listings(kind, fault, tokens) ==
  IF kind = "gcs" THEN <<[request |-> "getFiles"]>>
  ELSE IF RequestMode(fault, 1) = NoClient THEN <<>>
  ELSE [i \in 1..Len(tokens) |-> ListObjects(tokens[i])]

\* S3Persistor.deleteObject: every error is wrapped and thrown
S3deleteObject(objects, key, fault) ==
  IF RequestMode(fault, 1) # "answer"
  THEN Walk(objects, Fail(wrapError(RequestError(fault, 1), "failed to delete file in S3",
                                    Info(key), "WriteError")), <<>>)
  ELSE Walk(Removed(objects, {key}), Ok(Undefined), <<>>)

\* seeded fault: the object is not copied before it is deleted (C33)
DeleteSteps_NoCopy(settings) ==
  (IF settings.unlockBeforeDelete THEN <<"setMetadata">> ELSE <<>>) \o <<"delete">>

\* the requests GcsPersistor.deleteObject makes on the file, in order
DeleteSteps(settings) ==
  (IF settings.deletedBucketSuffix THEN <<"copy">> ELSE <<>>)
    \o (IF settings.unlockBeforeDelete THEN <<"setMetadata">> ELSE <<>>)
    \o <<"delete">>

\* the answer of a request on a file: a missing file is a 404
FileError(objects, key, fault, r) ==
  IF RequestMode(fault, r) = "failure" THEN Backend500
  ELSE IF RequestMode(fault, r) = "notFound" \/ ~Present(objects, key) THEN Backend404
  ELSE NoError

\* GcsPersistor.deleteObject, its requests numbered from r: a NotFoundError
\* is swallowed, the remaining steps are skipped
GcsdeleteObject(objects, settings, key, fault, r) ==
  LET steps == DeleteSteps(settings)
      failing == {i \in 1..Len(steps) : FileError(objects, key, fault, r + i - 1) # NoError}
      first == CHOOSE i \in failing : \A j \in failing : i <= j
      error == wrapError(FileError(objects, key, fault, r + first - 1),
                         "error deleting GCS object", Info(key), "WriteError")
  IN
  IF failing = {} THEN [objects |-> Removed(objects, {key}), result |-> Ok(Undefined),
                        requests |-> Len(steps)]
  ELSE IF IsNotFoundError(error) THEN [objects |-> objects, result |-> Ok(Undefined),
                                       requests |-> first]
  ELSE [objects |-> objects, result |-> Fail(error), requests |-> first]

\* `${bucketName}${Settings.gcs.deletedBucketSuffix}`
DeletedBucket == <<AdapterBucket, "deletedBucketSuffix">>

\* the requests GcsPersistor.deleteObject made on the file; a copy goes to
\* the bucket for deleted objects
FileRequests(settings, key, made) ==
  [i \in 1..made |->
     IF DeleteSteps(settings)[i] = "copy"
     THEN [request |-> "copy", file |-> key, to |-> DeletedBucket]
     ELSE [request |-> DeleteSteps(settings)[i], file |-> key]]

deleteObject(kind, objects, settings, key, fault) ==
  IF kind = "s3"
  THEN Requesting(S3deleteObject(objects, key, fault),
                  Request(RequestMode(fault, 1), "deleteObject"))
  ELSE LET d == GcsdeleteObject(objects, settings, key, fault, 1)
       IN Requesting(Walk(d.objects, d.result, <<>>), FileRequests(settings, key, d.requests))

\* seeded fault: deleteDirectory stops after its first page (C29)
IsTruncated_Never(response) == FALSE

\* if (response.IsTruncated): there is another page to delete
IsTruncated(response) == response.IsTruncated

RECURSIVE S3deleteDirectory(_, _, _, _, _)
\* S3Persistor.deleteDirectory: list a page, delete its objects, go on with
\* the next page outside the try blocks
S3deleteDirectory(objects, prefix, continuationToken, fault, r) ==
  LET response == listObjectsV2(objects, prefix, continuationToken)
      keys == {KeyOrder[i] : i \in response.Contents}
      deletes == IF keys # {} THEN 1 ELSE 0
      deleted == Removed(objects, keys)
      rest == S3deleteDirectory(deleted, prefix, response.NextContinuationToken,
                                fault, r + 1 + deletes)
      listed == <<ListObjects(continuationToken)>>
      page == listed \o (IF keys # {} THEN <<DeleteObjects(keys)>> ELSE <<>>)
  IN
  IF RequestMode(fault, r) # "answer"
  THEN Requesting(Walk(objects, Fail(wrapError(RequestError(fault, r),
                                               "failed to list objects in S3",
                                               Info(prefix), "ReadError")),
                       <<continuationToken>>),
                  IF RequestMode(fault, r) = NoClient THEN <<>> ELSE listed)
  ELSE IF keys # {} /\ RequestMode(fault, r + 1) # "answer"
  THEN Requesting(Walk(objects, Fail(wrapError(RequestError(fault, r + 1),
                                               "failed to delete objects in S3",
                                               Info(prefix), "WriteError")),
                       <<continuationToken>>),
                  page)
  ELSE IF IsTruncated(response)
  THEN Requesting(Walk(rest.objects, rest.result, <<continuationToken>> \o rest.tokens),
                  page \o rest.requests)
  ELSE Requesting(Walk(deleted, Ok(Undefined), <<continuationToken>>), page)

RECURSIVE GcsDeleteFiles(_, _, _, _, _)
\* asyncPool(deleteConcurrency, files, file => deleteObject(bucketName, file.name)),
\* one file at a time; the first rejection is the pool's
GcsDeleteFiles(objects, settings, files, fault, r) ==
  IF files = {} THEN [objects |-> objects, result |-> Ok(Undefined), requests |-> <<>>]
  ELSE LET i == CHOOSE x \in files : \A y \in files : x <= y
           d == GcsdeleteObject(objects, settings, KeyOrder[i], fault, r)
           made == FileRequests(settings, KeyOrder[i], d.requests)
           rest == GcsDeleteFiles(d.objects, settings, files \ {i}, fault, r + d.requests)
       IN IF d.result.status = "error"
          THEN [objects |-> d.objects, result |-> d.result, requests |-> made]
          ELSE [rest EXCEPT !.requests = made \o @]

\* GcsPersistor.deleteDirectory: getFiles and the deletes share one try block
GcsdeleteDirectory(objects, settings, prefix, fault) ==
  LET pool == GcsDeleteFiles(objects, settings, Under(objects, prefix), fault, 2)
      err == IF RequestMode(fault, 1) # "answer" THEN RequestError(fault, 1)
             ELSE pool.result.error
      error == wrapError(err, "failed to delete directory in GCS", Info(prefix), "WriteError")
      made == <<[request |-> "getFiles"]>>
                \o (IF RequestMode(fault, 1) = "answer" THEN pool.requests ELSE <<>>)
  IN
  IF RequestMode(fault, 1) = "answer" /\ pool.result.status = "ok"
  THEN Requesting(Walk(pool.objects, Ok(Undefined), << <<>> >>), made)
  ELSE LET left == IF RequestMode(fault, 1) # "answer" THEN objects ELSE pool.objects
       IN IF IsNotFoundError(error) THEN Requesting(Walk(left, Ok(Undefined), << <<>> >>), made)
          ELSE Requesting(Walk(left, Fail(error), << <<>> >>), made)

deleteDirectory(kind, objects, settings, prefix, fault) ==
  IF kind = "s3" THEN S3deleteDirectory(objects, prefix, <<>>, fault, 1)
  ELSE GcsdeleteDirectory(objects, settings, prefix, fault)

\* copyObject of both adapters: a missing source is a 404 of the backend
copyObject(kind, objects, sourceKey, destKey, mode) ==
  LET r == Fetch(objects, sourceKey, mode)
      info == IF kind = "s3"
              THEN [Bucket |-> AdapterBucket, Key |-> destKey,
                    CopySource |-> <<AdapterBucket, sourceKey>>]
              ELSE [bucketName |-> AdapterBucket, sourceKey |-> sourceKey, destKey |-> destKey]
  IN
  IF r.status = "ok"
  THEN Walk([objects EXCEPT ![destKey] = [r.value EXCEPT !.uploaded = <<>>]],
            Ok(Undefined), <<>>)
  ELSE Walk(objects, Fail(wrapError(r.error,
                                    IF kind = "s3" THEN "failed to copy file in S3"
                                    ELSE "failed to copy file in GCS",
                                    info, "WriteError")), <<>>)

----------------------------------------------------------------------------
(* The adapter as a state machine: every operation of the contract is one
   step from the objects of the bucket to the objects it leaves, with the
   backend's answers as inputs. *)

\* what callers stream to sendStream
Bodies == {<<2, 1>>}

\* the keys callers address single objects by
ObjectKeys == {<<"d", "s">>}

\* the keys callers copy between
CopyKeys == {<<"d", "s">>, <<"d", "t">>}

AdapterSettings == [deletedBucketSuffix : BOOLEAN, unlockBeforeDelete : BOOLEAN]

\* the settings of the S3 adapter: credentials for the bucket, default credentials
S3Settings == [bucketCreds : BOOLEAN, key : BOOLEAN]

Stored(bytes) == [bytes |-> bytes, etagMd5 |-> TRUE, uploaded |-> bytes]

EmptyBucket == [k \in AdapterKeys |-> NoObject]

\* a bucket holding one object of one chunk per position in the key order
FullBucket == [k \in AdapterKeys |->
                 Stored([i \in 1..(CHOOSE j \in 1..Len(KeyOrder) : KeyOrder[j] = k) |-> 1])]

\* the last operation: its name, arguments and result, the objects before
\* it, the two hashes sendStream compared, the listing tokens it sent and the
\* requests it made to the backend
Operation(name, key, arg, before, result, sourceMd5, destMd5, tokens, requests) ==
  [name |-> name, key |-> key, arg |-> arg, before |-> before, result |-> result,
   sourceMd5 |-> sourceMd5, destMd5 |-> destMd5, tokens |-> tokens, requests |-> requests]

\* the fault of an operation of an adapter without a client: its first step
ClientFault(kind, settings, fault) ==
  IF HasClient(kind, settings) THEN fault ELSE [at |-> 1, mode |-> NoClient]

\* the answers of the backend are inputs only where requests are made
Unasked(mode) == ~HasClient(adapter.kind, adapter.settings) => mode = "answer"

Performed(objects, op) ==
  /\ adapter # Idle
  /\ adapter.n < MaxAdapterOps
  /\ adapter' = [adapter EXCEPT !.objects = objects, !.op = op, !.n = @ + 1]
  /\ UNCHANGED <<Settings, primaryStore, fallbackStore, call, sessions, finished, nOps,
                 issued, factory>>

\* the MD5 a caller supplies with the stream: none, the stream's, or another
SuppliedMd5(sent) == {NoMd5, Hex(Md5(sent)), Hex(Md5(<<9>>))}

AdapterSendStream(key, sent, sourceMd5, transit, upMode, etagMd5, checkMode) ==
  /\ adapter # Idle
  /\ Unasked(upMode)
  /\ LET up == ClientMode(adapter.kind, adapter.settings, upMode)
         out == sendStream(adapter.kind, adapter.objects, key, sent, sourceMd5, transit,
                           up, etagMd5, checkMode)
     IN /\ up # "answer" => transit = "intact" /\ etagMd5 /\ checkMode = "answer"
                              /\ sourceMd5 = NoMd5
        /\ sourceMd5 # NoMd5 => checkMode = "answer"
        /\ adapter.kind = "gcs" => etagMd5
        /\ adapter.kind = "s3" /\ etagMd5 => checkMode = "answer"
        /\ Performed(out.objects,
                     Operation("sendStream", key,
                               [sent |-> sent, sourceMd5 |-> sourceMd5, transit |-> transit],
                               adapter.objects, out.result, out.sourceMd5, out.destMd5, <<>>,
                               out.requests))

\* the operations that make one request and leave the bucket as it is
Query(name, kind, objects, key, opts, mode) ==
  CASE name = "getObjectStream" -> getObjectStream(kind, objects, key, opts, mode)
    [] name = "getObjectSize" -> getObjectSize(kind, objects, key, mode)
    [] name = "getObjectMd5Hash" -> getObjectMd5Hash(kind, objects, key, mode)
    [] name = "checkIfObjectExists" -> checkIfObjectExists(kind, objects, key, mode)

Queries == {"getObjectStream", "getObjectSize", "getObjectMd5Hash", "checkIfObjectExists"}

AdapterQuery(name, key, opts, mode) ==
  /\ adapter # Idle
  /\ Unasked(mode)
  /\ name # "getObjectStream" \/ mode # "answer" => opts = NoRange
  /\ LET asked == ClientMode(adapter.kind, adapter.settings, mode)
     IN Performed(adapter.objects,
                  Operation(name, key, [opts |-> opts, mode |-> asked], adapter.objects,
                            Query(name, adapter.kind, adapter.objects, key, opts, asked),
                            NoMd5, NoMd5, <<>>, Request(asked, name)))

\* a fault is an input of its own only where the operation gets to the
\* request it names: elsewhere the operation runs as it does without a fault
Reaches(fault, out, unfaulted) == fault = NoFault \/ out # unfaulted

AdapterDeleteObject(key, fault) ==
  /\ adapter # Idle
  /\ Unasked(fault.mode)
  /\ fault.at <= (IF adapter.kind = "s3" THEN 1 ELSE Len(DeleteSteps(adapter.settings)))
  /\ LET asked == ClientFault(adapter.kind, adapter.settings, fault)
         out == deleteObject(adapter.kind, adapter.objects, adapter.settings, key, asked)
     IN Performed(out.objects,
                  Operation("deleteObject", key, [fault |-> asked], adapter.objects,
                            out.result, NoMd5, NoMd5, out.tokens, out.requests))

AdapterDeleteDirectory(prefix, fault) ==
  /\ adapter # Idle
  /\ Unasked(fault.mode)
  /\ LET asked == ClientFault(adapter.kind, adapter.settings, fault)
         out == deleteDirectory(adapter.kind, adapter.objects, adapter.settings, prefix, asked)
     IN /\ Reaches(fault, out, deleteDirectory(adapter.kind, adapter.objects,
                                               adapter.settings, prefix, NoFault))
        /\ Performed(out.objects,
                     Operation("deleteDirectory", prefix, [fault |-> asked], adapter.objects,
                               out.result, NoMd5, NoMd5, out.tokens, out.requests))

AdapterDirectorySize(prefix, fault) ==
  /\ adapter # Idle
  /\ Unasked(fault.mode)
  /\ LET asked == ClientFault(adapter.kind, adapter.settings, fault)
         out == directorySize(adapter.kind, adapter.objects, prefix, asked)
     IN /\ Reaches(fault, out, directorySize(adapter.kind, adapter.objects, prefix, NoFault))
        /\ Performed(out.objects,
                     Operation("directorySize", prefix, [fault |-> asked], adapter.objects,
                               out.result, NoMd5, NoMd5, out.tokens,
                               Listings(adapter.kind, asked, out.tokens)))

AdapterCopyObject(sourceKey, destKey, mode) ==
  /\ adapter # Idle
  /\ Unasked(mode)
  /\ sourceKey # destKey
  /\ LET asked == ClientMode(adapter.kind, adapter.settings, mode)
         out == copyObject(adapter.kind, adapter.objects, sourceKey, destKey, asked)
     IN Performed(out.objects,
                  Operation("copyObject", sourceKey, [destKey |-> destKey, mode |-> asked],
                            adapter.objects, out.result, NoMd5, NoMd5, out.tokens,
                            Request(asked, "copyObject")))

NoOperation ==
  Operation("none", <<>>, <<>>, EmptyBucket, Ok(Undefined), NoMd5, NoMd5, <<>>, <<>>)

AdapterInit ==
  /\ \E kind \in AdapterKinds, settings \in AdapterSettings \cup S3Settings,
        objects \in {EmptyBucket, FullBucket} :
       /\ settings \in (IF kind = "s3" THEN S3Settings ELSE AdapterSettings)
       /\ adapter = [kind |-> kind, settings |-> settings, objects |-> objects,
                     n |-> 0, op |-> NoOperation]
  /\ factory = Idle
  /\ Settings = [copyOnMiss |-> FALSE, buckets |-> CHOOSE t \in MappingTables : TRUE]
  /\ primaryStore = [b \in Buckets |-> [k \in Keys |-> Absent]]
  /\ fallbackStore = [b \in FallbackBuckets |-> [k \in Keys |-> Absent]]
  /\ call = NoCall
  /\ sessions = <<>>
  /\ finished = NoEvent
  /\ nOps = 0
  /\ issued = {}

\* requests an operation over a directory can make
MaxRequests == 3 * Len(KeyOrder) + 1

AdapterNext ==
  \/ \E key \in ObjectKeys, sent \in Bodies, transit \in {"intact", "damaged"},
        upMode \in Modes, etagMd5 \in BOOLEAN, checkMode \in Modes :
       \E sourceMd5 \in SuppliedMd5(sent) :
         AdapterSendStream(key, sent, sourceMd5, transit, upMode, etagMd5, checkMode)
  \/ \E name \in Queries, key \in ObjectKeys, opts \in {NoRange, Range(0, 0)}, mode \in Modes :
       AdapterQuery(name, key, opts, mode)
  \/ \E key \in ObjectKeys, fault \in Faults(3) : AdapterDeleteObject(key, fault)
  \/ \E prefix \in AdapterPrefixes, fault \in Faults(MaxRequests) :
       AdapterDeleteDirectory(prefix, fault)
  \/ \E prefix \in AdapterPrefixes, fault \in Faults(MaxRequests) :
       AdapterDirectorySize(prefix, fault)
  \/ \E sourceKey \in CopyKeys, destKey \in CopyKeys, mode \in Modes :
       AdapterCopyObject(sourceKey, destKey, mode)

AdapterSpec == AdapterInit /\ [][AdapterNext]_vars

----------------------------------------------------------------------------
(* Properties of the adapters *)

\* the last operation of the adapter was `name`
Did(name) == adapter # Idle /\ adapter.op.name = name

Succeeded == adapter.op.result.status = "ok"

Threw(kind) == adapter.op.result.status = "error" /\ adapter.op.result.error.kind = kind

\* C12: sendStream without a source hash succeeds only if the hash observed
\* over the bytes sent equals the hash of the object written, so that the
\* object holds the bytes sent; when the two hashes differ it fails with
\* WriteError.
C12_UnhashedUploadVerified ==
  Did("sendStream") /\ adapter.op.arg.sourceMd5 = NoMd5 =>
    /\ Succeeded =>
         /\ adapter.op.sourceMd5 = Hex(Md5(adapter.op.arg.sent))
         /\ adapter.op.destMd5 = adapter.op.sourceMd5
         /\ adapter.objects[adapter.op.key].bytes = adapter.op.arg.sent
    /\ adapter.op.destMd5 # NoMd5 /\ adapter.op.destMd5 # adapter.op.sourceMd5 =>
         Threw("WriteError")

\* an upload without a source hash succeeded on S3 for an object whose ETag
\* is not an MD5: the destination hash came from reading the object back
C12_Witness ==
  /\ Did("sendStream") /\ adapter.op.arg.sourceMd5 = NoMd5 /\ Succeeded
  /\ adapter.kind = "s3"
  /\ ~adapter.objects[adapter.op.key].etagMd5
  /\ adapter.op.destMd5 = Hex(Md5(adapter.op.arg.sent))

\* an upload without a source hash arrived damaged and was refused
C12_WitnessMismatch ==
  /\ Did("sendStream") /\ adapter.op.arg.sourceMd5 = NoMd5
  /\ adapter.op.arg.transit = "damaged"
  /\ Threw("WriteError")
  /\ adapter.op.destMd5 = Hex(Md5(Damaged(adapter.op.arg.sent)))

\* C13: getObjectMd5Hash of an object whose sendStream succeeded, with no
\* write to it since, returns the hex MD5 of the bytes passed to sendStream,
\* never null and never another value.
C13_HashOfUploadedBytes ==
  /\ Did("getObjectMd5Hash")
  /\ adapter.op.before[adapter.op.key].uploaded # <<>>
  /\ Succeeded
  => adapter.op.result.value = Hex(Md5(adapter.op.before[adapter.op.key].uploaded))

\* C14: checkIfObjectExists returns false for a key that holds no object
\* (never written, or deleted), and does not fail with NotFoundError whatever
\* the backend answers, a 404 to the existence check included.
C14_ExistsNeverNotFound ==
  Did("checkIfObjectExists") =>
    /\ ~Threw("NotFoundError")
    /\ ~Present(adapter.op.before, adapter.op.key) /\ adapter.op.arg.mode = "answer" =>
         adapter.op.result = Ok(FALSE)

\* C15: deleteObject of an absent key succeeds, and a not-found signal of
\* the backend during deleteObject never reaches the caller as an error.
C15_DeleteIdempotent ==
  Did("deleteObject") =>
    /\ ~Present(adapter.op.before, adapter.op.key) /\ adapter.op.arg.fault = NoFault =>
         Succeeded
    /\ adapter.op.arg.fault.mode = "notFound" => Succeeded

RECURSIVE TotalSize(_, _, _)
\* the sizes of the objects of `keys` that lie under the prefix, added up
TotalSize(objects, keys, prefix) ==
  IF keys = {} THEN 0
  ELSE LET k == CHOOSE x \in keys : TRUE
       IN (IF IsPrefix(prefix, k) THEN Len(objects[k].bytes) ELSE 0)
            + TotalSize(objects, keys \ {k}, prefix)

\* the objects of the page that the i-th listing request of the last operation asked for
PageOf(i) ==
  listObjectsV2(adapter.op.before, adapter.op.key, adapter.op.tokens[i])

\* C16: when the backend answers, directorySize returns the exact sum of the
\* sizes of the objects under the prefix, 0 when there are none; on S3 the
\* first page is requested without a token and each following page with the
\* NextContinuationToken of the page before, the last page is the one that
\* is not truncated, and no object is on two pages.
C16_DirectorySizeExact ==
  Did("directorySize") /\ adapter.op.arg.fault = NoFault =>
    /\ adapter.op.result =
         Ok(TotalSize(adapter.op.before, AdapterKeys, adapter.op.key))
    /\ Under(adapter.op.before, adapter.op.key) = {} => adapter.op.result = Ok(0)
    /\ adapter.objects = adapter.op.before
    /\ adapter.kind = "s3" =>
         /\ adapter.op.tokens[1] = <<>>
         /\ \A i \in 1..Len(adapter.op.tokens) :
              /\ PageOf(i).IsTruncated <=> i < Len(adapter.op.tokens)
              /\ i < Len(adapter.op.tokens) =>
                   adapter.op.tokens[i + 1] = PageOf(i).NextContinuationToken
              /\ \A j \in 1..Len(adapter.op.tokens) :
                   i # j => PageOf(i).Contents \cap PageOf(j).Contents = {}
         /\ UNION {PageOf(i).Contents : i \in 1..Len(adapter.op.tokens)}
              = Under(adapter.op.before, adapter.op.key)

\* the S3 adapter added up a directory of two objects over more than one page
C16_Witness ==
  /\ Did("directorySize") /\ adapter.op.arg.fault = NoFault
  /\ adapter.kind = "s3"
  /\ Len(adapter.op.tokens) > 1
  /\ Cardinality(Under(adapter.op.before, adapter.op.key)) = 2
  /\ adapter.op.result = Ok(3)

\* the operations whose failures are classified by the kind they request
Classified ==
  {"getObjectStream", "getObjectSize", "getObjectMd5Hash", "directorySize",
   "checkIfObjectExists", "sendStream", "copyObject"}

\* sendStream found the hash of the written object to differ from the observed one
Mismatched ==
  /\ Did("sendStream")
  /\ adapter.op.destMd5 # NoMd5
  /\ adapter.op.destMd5 # adapter.op.sourceMd5

HasBucketAndKey(info) ==
  /\ {"bucketName", "Bucket"} \cap DOMAIN info # {}
  /\ {"key", "Key", "sourceKey"} \cap DOMAIN info # {}

\* C17: an operation that fails because the backend failed throws
\* NotFoundError when the backend's error carries the not-found signal and
\* the kind its call site requests otherwise, with the backend's error as
\* cause and bucket and key in info.
C17_BackendFailureClassified ==
  /\ adapter # Idle
  /\ HasClient(adapter.kind, adapter.settings)
  /\ adapter.op.name \in Classified
  /\ adapter.op.result.status = "error"
  /\ ~Mismatched
  => LET error == adapter.op.result.error IN
     /\ error.cause.kind = "backend"
     /\ error.kind = IF error.cause.code = 404 THEN "NotFoundError"
                     ELSE RequestedKind(adapter.op.name)
     /\ HasBucketAndKey(error.info)

\* C18: deleteDirectory fails with ReadError when the listing of the objects
\* under the prefix fails, and with WriteError when the deletion of a listed
\* object fails.
C18_DeleteDirectoryErrorKinds ==
  Did("deleteDirectory") /\ adapter.op.arg.fault.mode = "failure" =>
    /\ adapter.op.arg.fault.at = 1 => Threw("ReadError")
    /\ adapter.op.arg.fault.at = 2 /\ Under(adapter.op.before, adapter.op.key) # {} =>
         Threw("WriteError")

----------------------------------------------------------------------------
(* The persistor factory.  The repository holds two versions of it: the one
   of PersistorFactory.js reads the Settings module, the other takes the
   settings as its argument. *)

Factories == {"PersistorFactory.js", "create(settings)"}

\* values of settings.backend and settings.fallback.backend: unset, empty,
\* the identifiers the factory knows, and one it does not
BackendIds == {Undefined, "", "s3", "aws-sdk", "fs", "gcs", "magic"}

\* settings.fallback: unset, or an object with a backend
Fallbacks == {<<>>} \cup {<<[backend |-> b]>> : b \in BackendIds}

FactorySettings == [backend : BackendIds, fallback : Fallbacks]

\* the error a version of the factory throws
FactoryError(version, message, settingsMessage) ==
  IF version = "PersistorFactory.js"
  THEN [kind |-> "Error", message |-> message]
  ELSE [kind |-> "SettingsError", message |-> settingsMessage]

\* switch (backend) of getPersistor
getPersistor(version, backend) ==
  CASE backend \in {"aws-sdk", "s3"} -> Ok([type |-> "S3Persistor"])
    [] backend = "fs" -> Ok([type |-> "FSPersistor"])
    [] backend = "gcs" -> Ok([type |-> "GcsPersistor"])
    [] OTHER -> Fail(FactoryError(version, <<"unknown filestore backend: ", backend>>,
                                  "unknown backend"))

\* seeded fault: the fallback of the settings is ignored (C20)
HasFallback_Never(settings) == FALSE

\* settings.fallback && settings.fallback.backend
HasFallback(settings) ==
  settings.fallback # <<>> /\ Truthy(settings.fallback[1].backend)

\* create(): the persistor it returns or the error it throws
create(version, settings) ==
  IF ~Truthy(settings.backend)
  THEN Fail(FactoryError(version, "no backend specified - config incomplete",
                         "no backend specified - config incomplete"))
  ELSE LET persistor == getPersistor(version, settings.backend)
           fallback == getPersistor(version, settings.fallback[1].backend)
       IN IF persistor.status = "error" THEN persistor
          ELSE IF HasFallback(settings)
          THEN IF fallback.status = "error" THEN fallback
               ELSE Ok([type |-> "MigrationPersistor", primary |-> persistor.value,
                        fallback |-> fallback.value])
          ELSE persistor

Create ==
  /\ factory # Idle
  /\ factory.result = Pending
  /\ factory' = [factory EXCEPT !.result = create(factory.version, factory.settings)]
  /\ UNCHANGED <<Settings, primaryStore, fallbackStore, call, sessions, finished, nOps,
                 issued, adapter>>

FactoryInit ==
  /\ \E version \in Factories, settings \in FactorySettings :
       factory = [version |-> version, settings |-> settings, result |-> Pending]
  /\ adapter = Idle
  /\ Settings = [copyOnMiss |-> FALSE, buckets |-> CHOOSE t \in MappingTables : TRUE]
  /\ primaryStore = [b \in Buckets |-> [k \in Keys |-> Absent]]
  /\ fallbackStore = [b \in FallbackBuckets |-> [k \in Keys |-> Absent]]
  /\ call = NoCall
  /\ sessions = <<>>
  /\ finished = NoEvent
  /\ nOps = 0
  /\ issued = {}

FactoryNext == Create

FactorySpec == FactoryInit /\ [][FactoryNext]_vars

Created == factory # Idle /\ factory.result # Pending

KnownIds == {"s3", "aws-sdk", "fs", "gcs"}

\* C19: creating a persistor fails with SettingsError when no backend is
\* configured, when the backend identifier is unknown, or when the
\* identifier of the configured fallback backend is unknown.
C19_InvalidSettingsFailFast ==
  /\ Created
  /\ \/ factory.settings.backend \in {Undefined, ""}
     \/ factory.settings.backend \notin KnownIds
     \/ /\ factory.settings.fallback # <<>>
        /\ factory.settings.fallback[1].backend \notin KnownIds \cup {Undefined, ""}
  => /\ factory.result.status = "error"
     /\ factory.result.error.kind = "SettingsError"

\* the adapter each identifier stands for
AdapterOf(id) ==
  [type |-> IF id = "fs" THEN "FSPersistor"
            ELSE IF id = "gcs" THEN "GcsPersistor" ELSE "S3Persistor"]

FallbackConfigured ==
  /\ factory.settings.fallback # <<>>
  /\ factory.settings.fallback[1].backend \notin {Undefined, ""}

\* C20: for valid settings the factory returns the adapter its backend
\* identifier selects, wrapped in a Migration Persistor together with the
\* adapter of the fallback identifier exactly when a fallback backend is
\* configured.
C20_FactorySelectsAdapter ==
  /\ Created
  /\ factory.settings.backend \in KnownIds
  /\ FallbackConfigured => factory.settings.fallback[1].backend \in KnownIds
  => /\ factory.result.status = "ok"
     /\ FallbackConfigured =>
          factory.result.value =
            [type |-> "MigrationPersistor",
             primary |-> AdapterOf(factory.settings.backend),
             fallback |-> AdapterOf(factory.settings.fallback[1].backend)]
     /\ ~FallbackConfigured =>
          factory.result.value = AdapterOf(factory.settings.backend)

\* 'aws-sdk' with a 'gcs' fallback gave a Migration Persistor over S3 and GCS
C20_Witness ==
  /\ Created
  /\ factory.settings.backend = "aws-sdk"
  /\ factory.settings.fallback = <<[backend |-> "gcs"]>>
  /\ factory.result = Ok([type |-> "MigrationPersistor",
                          primary |-> [type |-> "S3Persistor"],
                          fallback |-> [type |-> "GcsPersistor"]])

----------------------------------------------------------------------------
(* Properties of the Migration Persistor: repairs, tees and interleavings *)

\* opts asks for a byte range: a start or an end is given, 0 included
HasRange(opts) == opts.start # <<>> \/ opts.end # <<>>

\* C21: a getObjectStream that falls back starts a repair only when
\* copy-on-miss is enabled and opts carries no byte range; for opts with a
\* range, start or end 0 included, no stream is teed into a write to primary.
C21_RepairOnlyForWholeReads ==
  /\ (call.op = "getObjectStream" /\ call.launched = 1) =>
       Settings.copyOnMiss /\ ~HasRange(call.arg)
  /\ \A S \in Streams :
       ("return" \in DOMAIN S.br /\ S.src # S.full) => DOMAIN S.rep = {}

\* C22: when the repair started by a getObjectStream fails, the stream the
\* caller was given does not error and is not closed: it stays open until
\* the caller has read every byte fallback streamed.
C22_CallerStreamSurvivesRepairFailure ==
  \A S \in Streams :
    /\ "return" \in DOMAIN S.br
    /\ "copy" \in DOMAIN S.rep
    /\ S.rep["copy"].pc = "cleanup"
    => /\ S.outcome # "error"
       /\ S.br["return"].st = "open"
       /\ S.outcome = "end" => S.delivered = S.src

\* the chunks the consumer of a branch has taken from it
Consumed(S, n) == IF n = "return" THEN S.delivered ELSE S.rep[n].written

\* the branch is piped from the source and its consumer is reading it
Draining(S, n) ==
  /\ S.br[n].st = "open"
  /\ n \in DOMAIN S.rep => S.rep[n].pc \in {"hash", "write"}

\* C23: at both tee sites every branch is attached when the stream of
\* fallback is opened, before a chunk is emitted; every chunk the source has
\* emitted is, in order, in every branch or with the branch's consumer.
C23_EveryChunkToEveryBranch ==
  \A S \in Streams :
    /\ DOMAIN S.rep \subseteq DOMAIN S.br
    /\ \A n \in DOMAIN S.br :
         Draining(S, n) => Consumed(S, n) \o S.br[n].buf = SubSeq(S.src, 1, S.pos)

\* both branches of a tee have been handed every chunk of a two-chunk object
C23_Witness ==
  \E S \in Streams :
    /\ Cardinality(DOMAIN S.br) = 2
    /\ S.pos = 2
    /\ \A n \in DOMAIN S.br :
         Draining(S, n) /\ Consumed(S, n) \o S.br[n].buf = OldObject

\* what a read of the object through the Migration Persistor meets on primary
OnPrimary(bucket, key) ==
  BackendRead(primaryStore, "primary", "getObjectStream", bucket, key, FALSE)

\* C24: once sendStream of an object has succeeded and the caller has made no
\* later call, a read of the key gives the bytes uploaded, whatever a repair
\* of the key launched earlier does afterwards.
C24_UploadSurvivesRepair ==
  (call.op = "sendStream" /\ Done /\ ~Failed) =>
     OnPrimary(call.bucket, call.key) = Ok(NewObject)

\* C25: once deleteObject has succeeded and the caller has made no later
\* call, the key is in neither backend, whatever a repair of the key launched
\* earlier does afterwards.
C25_DeleteSurvivesRepair ==
  (call.op = "deleteObject" /\ Done /\ ~Failed) =>
     /\ ~Has(primaryStore, call.bucket, call.key)
     /\ ~Has(fallbackStore, call.fallbackBucket, call.key)

\* C26: checkIfObjectExists answers true exactly when the object is in
\* primary or in the fallback bucket the mapping gives.
C26_ExistsInEitherBackend ==
  (call.op = "checkIfObjectExists" /\ Done /\ ~Failed) =>
     call.result.value = (Has(primaryStore, call.bucket, call.key)
                            \/ Has(fallbackStore, _getFallbackBucket(call.bucket), call.key))

\* the rejection of primary.sendStream, the only failure the repair reports
WriteFailure == BackendError("WriteError", "primary", "sendStream")

\* C27: the repair asks fallback for the hash of the source before it writes;
\* a failed fetch leaves the repair running, writing with no hash; a repair
\* that fails has failed in its write.
C27_HashFetchBestEffort ==
  /\ \A S \in Streams : \A n \in DOMAIN S.rep :
       LET R == S.rep[n] IN
       /\ R.pc = "hash" => R.written = <<>> /\ R.error = NoError
       /\ R.pc = "write" => R.error = NoError /\ R.sourceMd5 \in {NoMd5, Md5(S.full)}
       /\ R.pc = "cleanup" => R.error.cause = WriteFailure
  /\ \A R \in ReturnedRepairs : R.error # NoError => R.error.cause = WriteFailure

\* a repair whose hash fetch failed has written the whole object and succeeded
C27_Witness ==
  \E R \in ReturnedRepairs :
    R.error = NoError /\ R.sourceMd5 = NoMd5 /\ R.written = R.full /\ R.full = OldObject

----------------------------------------------------------------------------
(* Properties of the adapters: requests and credentials *)

\* the bytes the backend received from the last sendStream
Received ==
  IF adapter.op.arg.transit = "intact" THEN adapter.op.arg.sent
  ELSE Damaged(adapter.op.arg.sent)

\* C28: sendStream with a source hash passes that hash to the backend with
\* the upload, computes none of its own, and makes no request after the
\* upload to fetch the hash of the object or to read the object again.
C28_SuppliedHashNoSecondRequest ==
  Did("sendStream") /\ adapter.op.arg.sourceMd5 # NoMd5 =>
    /\ adapter.op.sourceMd5 = adapter.op.arg.sourceMd5
    /\ Len(adapter.op.requests) = 1
    /\ Succeeded <=> adapter.op.arg.sourceMd5 = Hex(Md5(Received))

\* the requests of the last operation, and the listing requests among them
Made == adapter.op.requests

Listed == {i \in 1..Len(Made) : Made[i].request = "listObjectsV2"}

\* the page S3 gave for the i-th request, a listing: the objects of earlier
\* pages are gone, those after the token are as they were
PageFor(i) == listObjectsV2(adapter.op.before, adapter.op.key, Made[i].ContinuationToken)

PageKeys(i) == {KeyOrder[j] : j \in PageFor(i).Contents}

\* the objects of the pages whose delete request was answered
Emptied ==
  UNION {PageKeys(i) : i \in {j \in Listed : j + 1 < Len(Made) \/ (j + 1 = Len(Made) /\ Succeeded)}}

\* C29: deleteDirectory of the S3 adapter ends; when S3 answers it deletes
\* every object under the prefix and no other, page by page: a page's
\* objects are deleted in the request after its listing, the next page is
\* asked for after that with the NextContinuationToken, exactly when the page
\* is truncated, and an empty page gets no delete request; a request that
\* fails is the last one and fails the call.
C29_DeleteDirectoryPageByPage ==
  /\ Did("deleteDirectory")
  /\ adapter.kind = "s3"
  /\ HasClient(adapter.kind, adapter.settings)
  => /\ adapter.op.result.status \in {"ok", "error"}
     /\ Made[1] = ListObjects(<<>>)
     /\ \A i \in 1..Len(Made) :
          Made[i].request = "deleteObjects" => Made[i].Objects # {} /\ i - 1 \in Listed
     /\ \A i \in Listed :
          LET next == IF PageKeys(i) = {} THEN i + 1 ELSE i + 2 IN
          /\ PageKeys(i) # {} /\ i < Len(Made) => Made[i + 1] = DeleteObjects(PageKeys(i))
          /\ next <= Len(Made) =>
               PageFor(i).IsTruncated /\ Made[next] = ListObjects(PageFor(i).NextContinuationToken)
          /\ next > Len(Made) /\ Succeeded => ~PageFor(i).IsTruncated
     /\ adapter.objects = Removed(adapter.op.before, Emptied)
     /\ adapter.op.arg.fault = NoFault =>
          /\ Succeeded
          /\ Under(adapter.objects, adapter.op.key) = {}
          /\ Emptied = {KeyOrder[i] : i \in Under(adapter.op.before, adapter.op.key)}
     /\ adapter.op.arg.fault # NoFault =>
          /\ ~Succeeded
          /\ Len(Made) = adapter.op.arg.fault.at

\* the S3 adapter deleted a directory of two objects over two pages
C29_Witness ==
  /\ Did("deleteDirectory") /\ adapter.kind = "s3" /\ Succeeded
  /\ Cardinality(Under(adapter.op.before, adapter.op.key)) = 2
  /\ Cardinality(Listed) = 2
  /\ Len(Made) = 4
  /\ Under(adapter.objects, adapter.op.key) = {}

\* C30: every operation of the S3 adapter on a bucket for which the settings
\* hold neither credentials of its own nor default credentials fails with
\* SettingsError, not with ReadError or WriteError, and makes no request.
C30_NoCredentialsSettingsError ==
  /\ adapter # Idle
  /\ adapter.op.name # "none"
  /\ adapter.kind = "s3"
  /\ ~adapter.settings.bucketCreds /\ ~adapter.settings.key
  => /\ Threw("SettingsError")
     /\ Made = <<>>
     /\ adapter.objects = adapter.op.before

----------------------------------------------------------------------------
(* The entry point of the package (ObjectPersistor) next to a Migration
   Persistor it created earlier.  MigrationPersistor.js reads the Settings
   module on every call; ObjectPersistor assigns its config to that module. *)

\* persistors created in one behaviour
MaxInstances == 2

\* config of ObjectPersistor: without a `fallback` member, or with one
Configs == {<<>>} \cup {<<f>> : f \in [copyOnMiss : BOOLEAN, buckets : MappingTables]}

\* Object.assign(Settings, config): a member of config replaces the member of Settings
ObjectAssign(settings, config) == IF config = <<>> THEN settings ELSE config[1]

\* ObjectPersistor(config): assign the config to Settings, then create
ObjectPersistor(config) ==
  /\ factory # Idle
  /\ factory.instances < MaxInstances
  /\ Settings' = ObjectAssign(Settings, config)
  /\ factory' = [factory EXCEPT !.instances = @ + 1]
  /\ issued' = {}
  /\ finished' = NoEvent
  /\ UNCHANGED <<adapter, primaryStore, fallbackStore, call, sessions, nOps>>

\* the first persistor has been created with a fallback: `policy` is what
\* Settings.fallback was then
ConfigInit ==
  /\ adapter = Idle
  /\ Settings \in [copyOnMiss : BOOLEAN, buckets : MappingTables]
  /\ factory = [policy |-> Settings, instances |-> 1]
  /\ primaryStore = [b \in Buckets |-> [k \in Keys |-> Absent]]
  /\ fallbackStore = [b \in FallbackBuckets |->
                        [k \in Keys |-> IF k = <<"d", "s">> THEN OldObject ELSE Absent]]
  /\ call = NoCall
  /\ sessions = <<>>
  /\ finished = NoEvent
  /\ nOps = 0
  /\ issued = {}

\* reads of the first persistor, their repairs, and later creations
ConfigNext ==
  \/ \E config \in Configs : ObjectPersistor(config)
  \/ \E b \in Buckets, k \in Keys, o \in OptsSet, fault \in BOOLEAN :
       GetObjectStreamPrimary(b, k, o, fault)
  \/ \E fault \in BOOLEAN : GetObjectStreamFallback(fault)
  \/ \E s \in 1..Len(sessions) : TeeEmit(s)
  \/ \E s \in 1..Len(sessions) : CallerRead(s)
  \/ \E s \in 1..Len(sessions), fault \in BOOLEAN :
       "copy" \in DOMAIN sessions[s].rep /\ RepairHash(s, "copy", fault)
  \/ \E s \in 1..Len(sessions) :
       "copy" \in DOMAIN sessions[s].rep /\ RepairConsume(s, "copy")
  \/ \E s \in 1..Len(sessions) :
       "copy" \in DOMAIN sessions[s].rep /\ RepairWriteOk(s, "copy")

ConfigSpec == ConfigInit /\ [][ConfigNext]_vars

\* the fallback bucket a mapping table gives
FallbackBucketUnder(buckets, bucket) ==
  LET v == PropertyOf(buckets, bucket) IN IF Truthy(v) THEN v ELSE bucket

\* C31: a Migration Persistor falls back, remaps buckets and repairs by the
\* copy-on-miss flag and the mapping table it was created with, also after
\* another persistor has been created with a different configuration.
C31_PolicyFixedAtCreation ==
  (factory # Idle /\ call.op = "getObjectStream") =>
     /\ call.shouldCopy => factory.policy.copyOnMiss
     /\ factory.policy.copyOnMiss /\ call.arg = NoRange => call.shouldCopy
     /\ call.fallbackBucket # Undefined =>
          call.fallbackBucket = FallbackBucketUnder(factory.policy.buckets, call.bucket)
     /\ call.launched = 1 => factory.policy.copyOnMiss

----------------------------------------------------------------------------
(* The wrapped read methods of the Migration Persistor *)

\* the call of a wrapped method found the object missing on primary
MissedOnPrimary == call.op \in WrappedMethods /\ IsNotFoundError(call.primaryError)

\* the call has opened the object on fallback and started its repair
RepairStarted == call.launched = 1 /\ call.fbCalls >= 1

\* C32: a wrapped read method that primary fails with NotFoundError, with
\* copy-on-miss: opens the whole object on fallback and starts the repair of
\* the key before it calls the method on fallback, whose result it returns;
\* fails with the error of the open, the method on fallback not called, when
\* the open fails.  Without copy-on-miss: opens no stream, writes nothing.
C32_WrappedMethodsRepairFirst ==
  MissedOnPrimary =>
    /\ call.pc = "fallbackStream" => Settings.copyOnMiss /\ call.fbCalls = 0
    /\ call.pc = "fallback" => (IF Settings.copyOnMiss THEN RepairStarted ELSE call.fbCalls = 0)
    /\ \A c \in issued :
         c.backend = "fallback" /\ c.method = call.op => Settings.copyOnMiss = RepairStarted
    /\ Settings.copyOnMiss /\ Done =>
         IF RepairStarted
         THEN /\ call.fbCalls = 2
              /\ ~Failed =>
                   call.result = BackendRead(fallbackStore, "fallback", call.op,
                                             call.fallbackBucket, call.key, FALSE)
              /\ Failed => call.result.error.method = call.op
         ELSE /\ call.fbCalls = 1
              /\ Failed
              /\ call.result.error.origin = "fallback"
              /\ call.result.error.method = "getObjectStream"
    /\ ~Settings.copyOnMiss =>
         /\ call.launched = 0
         /\ sessions = <<>>
         /\ \A c \in issued : c.method = call.op
         /\ Done => call.fbCalls = 1

\* with copy-on-miss a wrapped method returned what fallback gave it, after
\* it had started the repair of the key
C32_Witness ==
  /\ MissedOnPrimary /\ Settings.copyOnMiss /\ Done /\ ~Failed
  /\ RepairStarted
  /\ call.fbCalls = 2
  /\ \E S \in Streams : "copy" \in DOMAIN S.rep /\ S.rep["copy"].destKey = call.key

----------------------------------------------------------------------------
(* deleteObject of the GCS adapter with a bucket for deleted objects *)

\* the last operation removed the object it was called for
ObjectRemoved ==
  Present(adapter.op.before, adapter.op.key) /\ ~Present(adapter.objects, adapter.op.key)

\* the first request of the last operation: the copy into the bucket for deleted objects
CopiedFirst ==
  /\ Len(Made) >= 1
  /\ Made[1] = [request |-> "copy", file |-> adapter.op.key, to |-> DeletedBucket]

\* C33: with a deleted-bucket suffix, deleteObject of the GCS adapter deletes
\* the object only after its copy into bucket+suffix has succeeded; a copy
\* that fails otherwise than with not-found leaves the object and fails the
\* call with WriteError; a copy that fails with not-found leaves the object
\* and the call succeeds.
C33_CopyBeforeDelete ==
  /\ Did("deleteObject")
  /\ adapter.kind = "gcs"
  /\ adapter.settings.deletedBucketSuffix
  => /\ CopiedFirst
     /\ ObjectRemoved =>
          /\ adapter.op.arg.fault.at # 1
          /\ Len(Made) >= 2
          /\ Made[Len(Made)] = [request |-> "delete", file |-> adapter.op.key]
          /\ Succeeded
     /\ adapter.op.arg.fault = [at |-> 1, mode |-> "failure"] =>
          /\ Threw("WriteError")
          /\ adapter.objects = adapter.op.before
          /\ Len(Made) = 1
     /\ adapter.op.arg.fault = [at |-> 1, mode |-> "notFound"] =>
          /\ Succeeded
          /\ adapter.objects = adapter.op.before
          /\ Len(Made) = 1

\* the GCS adapter copied an object to the bucket for deleted objects and then deleted it
C33_Witness ==
  /\ Did("deleteObject") /\ adapter.kind = "gcs" /\ adapter.settings.deletedBucketSuffix
  /\ CopiedFirst
  /\ ObjectRemoved
  /\ Succeeded

====
